---- MODULE Spec2Model ----
(***************************************************************************)
(* Verification model of the agent execution and workflow orchestration    *)
(* engine of book-trash:                                                    *)
(*   - BaseAgent.execute (validation, LLM initialisation, timeout race,    *)
(*     retry with backoff, status, events)      base-agent.abstract.ts      *)
(*   - SimpleWorkflowExecutor.executeWorkflow / streamWorkflow              *)
(*     (dependency / condition scheduler)       langgraph-workflow.ts       *)
(* Error messages are sequences of words, so that String.includes() is      *)
(* membership of a word in the message.                                      *)
(***************************************************************************)
EXTENDS Integers, Sequences, FiniteSets, TLC

VARIABLES
  \* ---- BaseAgent instance --------------------------------------------
  maxRetriesCfg,   \* this.config.maxRetries after the constructor
  timeoutCfg,      \* this.config.timeout after the constructor
  llm,             \* TRUE when this.llm is set
  llmManager,      \* BaseAgent.llmManager: "unset" | "empty" | "ready"
  status,          \* this.status
  eventListeners,  \* this.eventListeners (a list, duplicates allowed)
  \* ---- the execute call in progress ----------------------------------
  apc,             \* position of the execute call
  attempt,         \* loop variable of the retry loop
  lastError,       \* lastError.message (NoError when null)
  result,          \* the AgentResult returned (NoResult before)
  elapsed,         \* ms since the call was made
  \* ---- observations of the call in progress --------------------------
  calls,           \* number of execute calls made so far
  invocations,     \* number of doExecute invocations of this call
  outcomes,        \* how each attempt of this call ended
  emitted,         \* events passed to emitEvent during this call
  inbox,           \* events each listener received during this call
  statusAtCall,    \* this.status when the call was made
  callInput,       \* "none" | "valid" | "invalid": validateInput of the call
  \* ---- SimpleWorkflowExecutor run ------------------------------------
  spc,             \* position of executeWorkflow / streamWorkflow
  mode,            \* "execute" | "stream"
  workflowId,      \* the workflowId argument
  workflow,        \* workflow.steps of the selected definition
  state,           \* the accumulated WorkflowState
  completedSteps,  \* Set<string> of completed step ids
  pendingSteps,    \* the pendingSteps array
  scanIdx,         \* loop variable i of the scan (1-based)
  progressMade,    \* progressMade of the current round
  \* ---- observations of the run ---------------------------------------
  round,           \* number of the current while-iteration
  started,         \* step executions started, in order: [id, round]
  finished,        \* ids of the steps whose executeStep has resolved
  failedSteps,     \* ids of the steps whose executeStep recorded an error
  snapshots,       \* the states yielded by streamWorkflow, in order
  \* ---- AgentOrchestrator: the workflow requests it serves -------------
  wpc,             \* position of each executeWorkflow call
  winput,          \* the WorkflowInput of each call
  output,          \* the WorkflowOutput of each call
  locals,          \* the step results held in the locals of the workflow method
  stepNo,          \* the step of the pipeline each call is at (1-based)
  inFlight,        \* per agent instance: execute calls made and not settled
  \* ---- observations of the requests -----------------------------------
  invoked,         \* per call: the steps whose agent was invoked, in order
  stepOutcomes,    \* per call: how the race of each invoked step ended
  \* ---- executeParallelAgents ------------------------------------------
  ppc,             \* position of the executeParallelAgents call
  agentCount,      \* agents.length
  maxConcurrency,  \* the maxConcurrency argument after defaulting
  loopIdx,         \* loop variable i (1-based)
  executing,       \* the executing array: indices of the agents' promises
  settledAgents,   \* index -> "pending" | "fulfilled" | "rejected"
  raceWinner,      \* the promise that settles the pending Promise.race (0: none)
  parResults,      \* the results array (0: hole)
  \* ---- KeyPointExtractorAgent.doExecute --------------------------------
  kpc,             \* position of doExecute
  responseText,    \* the text chain.invoke resolved with
  maxKeyPoints,    \* maxKeyPoints after defaulting
  keyPoints,       \* the result of parseKeyPointsResponse
  parsedBy,        \* the strategy whose result parseKeyPointsResponse returned
  validatedKeyPoints, \* the result of validateAndCleanKeyPoints
  kpResult,        \* how doExecute ended
  \* ---- LearningPathAgent.doExecute -------------------------------------
  lpc,             \* position of doExecute
  userLevel,       \* input.userLevel
  learningSteps,   \* the result of parseLearningPathResponse
  optimizedSteps,  \* the result of optimizeLearningPath
  lpResult,        \* how doExecute ended
  \* ---- QuizAgent.doExecute ---------------------------------------------
  qpc,             \* position of doExecute
  rawOutput,       \* the text chain.call resolved with, line by line
  questionCount,   \* questionCount after defaulting
  questions,       \* the result of parseQuizQuestions
  questionsBy,     \* the path that produced it: "json" | "text"
  optimizedQuestions, \* the result of optimizeQuestions
  quizResult,      \* how doExecute ended
  \* ---- two runs of one workflow -----------------------------------------
  firstRun,        \* what the executeWorkflow run was given and returned
  \* ---- execute calls that overlap on one agent --------------------------
  callPc,          \* per call: position of the execute call
  callAttempt,     \* per call: loop variable attempt
  callResult,      \* per call: what the call returned
  lateAttempts     \* per call: doExecute promises that lost the race with
                   \* the timer and have not settled yet

agentVars == <<maxRetriesCfg, timeoutCfg, llm, llmManager, status,
               eventListeners, apc, attempt, lastError, result, elapsed,
               calls, invocations, outcomes, emitted, inbox, statusAtCall,
               callInput>>

schedVars == <<spc, mode, workflowId, workflow, state, completedSteps, pendingSteps,
               scanIdx, progressMade, round, started, finished, failedSteps,
               snapshots>>

orchVars == <<wpc, winput, output, locals, stepNo, inFlight, invoked,
              stepOutcomes>>

parVars == <<ppc, agentCount, maxConcurrency, loopIdx, executing,
             settledAgents, raceWinner, parResults>>

keyPointVars == <<kpc, responseText, maxKeyPoints, keyPoints, parsedBy,
                  validatedKeyPoints, kpResult>>

learningPathVars == <<lpc, userLevel, learningSteps, optimizedSteps, lpResult>>

quizVars == <<qpc, rawOutput, questionCount, questions, questionsBy,
              optimizedQuestions, quizResult>>

replayVars == <<firstRun>>

callVars == <<callPc, callAttempt, callResult, lateAttempts>>

vars == <<agentVars, schedVars, orchVars, parVars,
          keyPointVars, learningPathVars, quizVars, replayVars, callVars>>

\* what the operations of one component leave alone
notAgentVars == <<schedVars, orchVars, parVars, keyPointVars,
                  learningPathVars, quizVars, replayVars, callVars>>

notSchedVars == <<agentVars, orchVars, parVars, keyPointVars,
                  learningPathVars, quizVars, replayVars, callVars>>

notOrchVars == <<agentVars, schedVars, parVars, keyPointVars,
                 learningPathVars, quizVars, replayVars, callVars>>

notParVars == <<agentVars, schedVars, orchVars, keyPointVars,
                learningPathVars, quizVars, replayVars, callVars>>

notKeyPointVars == <<agentVars, schedVars, orchVars, parVars,
                     learningPathVars, quizVars, replayVars, callVars>>

notLearningPathVars == <<agentVars, schedVars, orchVars, parVars,
                         keyPointVars, quizVars, replayVars, callVars>>

notQuizVars == <<agentVars, schedVars, orchVars, parVars,
                 keyPointVars, learningPathVars, replayVars, callVars>>

\* ------------------------------------------------------------------------
\* Bounds of the model
\* ------------------------------------------------------------------------
MaxConfigRetries == 3     \* configured maxRetries ranges over 0..MaxConfigRetries
MaxCalls == 2             \* execute calls made one after the other
MaxListeners == 2         \* length of the eventListeners list

\* ------------------------------------------------------------------------
\* Program constants
\* ------------------------------------------------------------------------
DefaultMaxRetries == 3
DefaultTimeoutMs == 30000
ParserTimeoutMs == 15000
BackoffBaseMs == 1000

Absent == -1              \* a config key that was not given
NoError == <<"null">>
NoResult == [success |-> FALSE, error |-> <<"pending">>, attempts |-> 0]

\* one listener object; the list may hold it more than once
ListenerIds == {"l1"}
MaxRetriesInputs == (0..MaxConfigRetries) \cup {Absent}
TimeoutInputs == {0, ParserTimeoutMs, DefaultTimeoutMs, Absent}
\* how long a doExecute that answers takes; always below the timeouts
AttemptDurations == {200}

Range(s) == {s[k] : k \in 1..Len(s)}

\* ------------------------------------------------------------------------
\* BaseAgent: constructor and configuration
\* ------------------------------------------------------------------------
\* this.config = { maxRetries: 3, timeout: 30000, ...config }
ConstructorMaxRetries(given) == IF given = Absent THEN DefaultMaxRetries ELSE given

ConstructorTimeout(given) == IF given = Absent THEN DefaultTimeoutMs ELSE given

\* const maxRetries = this.config.maxRetries || 3
EffectiveMaxRetries(c) == IF c = 0 THEN DefaultMaxRetries ELSE c

\* this.config.timeout || 30000
EffectiveTimeout(c) == IF c = 0 THEN DefaultTimeoutMs ELSE c

\* await this.delay(1000 * attempt)
BackoffDelay(a) == BackoffBaseMs * a

\* ------------------------------------------------------------------------
\* BaseAgent: error messages
\* ------------------------------------------------------------------------
\* new Error(`Operation timeout after ${timeout}ms`)   (executeWithTimeout)
TimeoutMessage(t) == <<"Operation", "timeout", "after", ToString(t), "ms">>

\* what the generation backend may throw inside doExecute
BackendErrors ==
  { <<"Request", "timeout">>,
    <<"API", "key", "rejected">>,
    <<"Unexpected", "token", "in", "JSON">>,
    <<"No", "valid", "key", "points", "extracted">>,
    <<"socket", "hang", "up">> }

\* the catch block of doExecute: error classification
ClassifyError(msg) ==
  IF "timeout" \in Range(msg)
    THEN <<"TIMEOUT_ERROR", ":", "LLM", "request", "timeout">>
  ELSE IF "API" \in Range(msg) \/ "model" \in Range(msg)
    THEN <<"LLM_ERROR", ":">> \o msg
  ELSE IF "parse" \in Range(msg) \/ "JSON" \in Range(msg)
    THEN <<"PARSING_ERROR", ":", "Failed", "to", "parse", "LLM", "response">>
  ELSE <<"UNKNOWN_ERROR", ":">> \o msg

\* `Agent ${name} failed after ${maxRetries} attempts: ${lastError?.message}`
FailureMessage(n, last) ==
  <<"Agent", "failed", "after", ToString(n), "attempts", ":">> \o
    (IF last = NoError THEN <<"undefined">> ELSE last)

InvalidInputMessage == <<"Invalid", "input", "for", "agent">>

\* ------------------------------------------------------------------------
\* BaseAgent: events
\* ------------------------------------------------------------------------
Event(type, err) == [type |-> type, error |-> err]

\* emitEvent: every listener of the list gets the event, in list order
RECURSIVE Deliver(_, _, _)
Deliver(box, listeners, ev) ==
  IF listeners = <<>> THEN box
  ELSE Deliver([box EXCEPT ![Head(listeners)] = Append(@, ev)],
               Tail(listeners), ev)

EmptyInbox == [l \in ListenerIds |-> <<>>]

\* removeEventListener: indexOf + splice(index, 1)
RemoveFirst(s, l) ==
  IF l \notin Range(s) THEN s
  ELSE LET k == CHOOSE j \in 1..Len(s) :
                  s[j] = l /\ \A h \in 1..(j-1) : s[h] # l
       IN  SubSeq(s, 1, k-1) \o SubSeq(s, k+1, Len(s))

\* ------------------------------------------------------------------------
\* BaseAgent: initial state (after the constructor)
\* ------------------------------------------------------------------------
InitAgent ==
  /\ \E given \in MaxRetriesInputs : maxRetriesCfg = ConstructorMaxRetries(given)
  /\ \E given \in TimeoutInputs : timeoutCfg = ConstructorTimeout(given)
  /\ llm \in BOOLEAN              \* config.llm given or not
  /\ llmManager = "unset"
  /\ status = "idle"
  /\ eventListeners = <<>>
  /\ apc = "idle"
  /\ attempt = 0
  /\ lastError = NoError
  /\ result = NoResult
  /\ elapsed = 0
  /\ calls = 0
  /\ invocations = 0
  /\ outcomes = <<>>
  /\ emitted = <<>>
  /\ inbox = EmptyInbox
  /\ statusAtCall = "idle"
  /\ callInput = "none"

\* no execute call is in flight
CallFree == apc \in {"idle", "returned", "rejected"}

\* ------------------------------------------------------------------------
\* BaseAgent: operations
\* ------------------------------------------------------------------------
\* static setLLMManager / setLLMManagerInstance
SetLLMManager(m) ==
  /\ CallFree
  /\ m # llmManager
  /\ llmManager' = m
  /\ UNCHANGED <<maxRetriesCfg, timeoutCfg, llm, status, eventListeners, apc,
                 attempt, lastError, result, elapsed, calls, invocations,
                 outcomes, emitted, inbox, statusAtCall, callInput>>
  /\ UNCHANGED notAgentVars

AddEventListener(l) ==
  /\ Len(eventListeners) < MaxListeners
  /\ eventListeners' = Append(eventListeners, l)
  /\ UNCHANGED <<maxRetriesCfg, timeoutCfg, llm, llmManager, status, apc,
                 attempt, lastError, result, elapsed, calls, invocations,
                 outcomes, emitted, inbox, statusAtCall, callInput>>
  /\ UNCHANGED notAgentVars

RemoveEventListener(l) ==
  /\ l \in Range(eventListeners)
  /\ eventListeners' = RemoveFirst(eventListeners, l)
  /\ UNCHANGED <<maxRetriesCfg, timeoutCfg, llm, llmManager, status, apc,
                 attempt, lastError, result, elapsed, calls, invocations,
                 outcomes, emitted, inbox, statusAtCall, callInput>>
  /\ UNCHANGED notAgentVars

\* the observations of a new call
NewCall(input) ==
  /\ CallFree
  /\ calls < MaxCalls
  /\ calls' = calls + 1
  /\ callInput' = input
  /\ statusAtCall' = status
  /\ elapsed' = 0
  /\ outcomes' = <<>>

\* ExecuteInvalid with the validation moved after the status change and the
\* started event
ExecuteInvalid_afterStart ==
  /\ NewCall("invalid")
  /\ result' = [success |-> FALSE, error |-> InvalidInputMessage, attempts |-> 0]
  /\ apc' = "returned"
  /\ attempt' = 0
  /\ lastError' = NoError
  /\ invocations' = 0
  /\ status' = "running"
  /\ emitted' = <<Event("started", NoError)>>
  /\ inbox' = Deliver(EmptyInbox, eventListeners, "started")
  /\ UNCHANGED <<maxRetriesCfg, timeoutCfg, llm, llmManager, eventListeners>>
  /\ UNCHANGED notAgentVars

\* execute, validateInput(input) false: return at once
ExecuteInvalid ==
  /\ NewCall("invalid")
  /\ result' = [success |-> FALSE, error |-> InvalidInputMessage, attempts |-> 0]
  /\ apc' = "returned"
  /\ attempt' = 0
  /\ lastError' = NoError
  /\ invocations' = 0
  /\ emitted' = <<>>
  /\ inbox' = EmptyInbox
  /\ UNCHANGED <<maxRetriesCfg, timeoutCfg, llm, llmManager, status,
                 eventListeners>>
  /\ UNCHANGED notAgentVars

\* initializeLLM succeeds: this.llm is set, or the manager has the LLM
LLMObtainable == llm \/ llmManager = "ready"

\* ExecuteRejects with initializeLLM awaited after the status change and the
\* started event
ExecuteRejects_afterStart ==
  /\ NewCall("valid")
  /\ ~LLMObtainable
  /\ result' = NoResult
  /\ apc' = "rejected"
  /\ attempt' = 0
  /\ lastError' = NoError
  /\ invocations' = 0
  /\ status' = "running"
  /\ emitted' = <<Event("started", NoError)>>
  /\ inbox' = Deliver(EmptyInbox, eventListeners, "started")
  /\ UNCHANGED <<maxRetriesCfg, timeoutCfg, llm, llmManager, eventListeners>>
  /\ UNCHANGED notAgentVars

\* execute, valid input, initializeLLM throws: the call rejects
ExecuteRejects ==
  /\ NewCall("valid")
  /\ ~LLMObtainable
  /\ result' = NoResult
  /\ apc' = "rejected"
  /\ attempt' = 0
  /\ lastError' = NoError
  /\ invocations' = 0
  /\ emitted' = <<>>
  /\ inbox' = EmptyInbox
  /\ UNCHANGED <<maxRetriesCfg, timeoutCfg, llm, llmManager, status,
                 eventListeners>>
  /\ UNCHANGED notAgentVars

\* execute, valid input: status running, started event, first attempt begins
ExecuteBegin ==
  /\ NewCall("valid")
  /\ LLMObtainable
  /\ llm' = TRUE
  /\ status' = "running"
  /\ emitted' = <<Event("started", NoError)>>
  /\ inbox' = Deliver(EmptyInbox, eventListeners, "started")
  /\ lastError' = NoError
  /\ result' = NoResult
  /\ attempt' = 1
  /\ invocations' = 1
  /\ apc' = "attempting"
  /\ UNCHANGED <<maxRetriesCfg, timeoutCfg, llmManager, eventListeners>>
  /\ UNCHANGED notAgentVars

\* FailAttempt with an error event emitted at every failed attempt
FailAttempt_emitsEachFailure(msg, d, how) ==
  /\ apc = "attempting"
  /\ lastError' = msg
  /\ elapsed' = elapsed + d
  /\ outcomes' = Append(outcomes, how)
  /\ IF attempt < EffectiveMaxRetries(maxRetriesCfg)
       THEN /\ apc' = "backoff"
            /\ emitted' = Append(emitted, Event("error", msg))
            /\ inbox' = Deliver(inbox, eventListeners, "error")
            /\ UNCHANGED <<status, result>>
       ELSE LET errorMessage ==
                  FailureMessage(EffectiveMaxRetries(maxRetriesCfg), msg)
            IN  /\ status' = "error"
                /\ emitted' = Append(emitted, Event("error", errorMessage))
                /\ inbox' = Deliver(inbox, eventListeners, "error")
                /\ result' = [success |-> FALSE, error |-> errorMessage,
                              attempts |-> attempt]
                /\ apc' = "returned"
  /\ UNCHANGED <<maxRetriesCfg, timeoutCfg, llm, llmManager, eventListeners,
                 attempt, calls, invocations, statusAtCall, callInput>>
  /\ UNCHANGED notAgentVars

\* the catch block of the retry loop, and the code after the loop
FailAttempt(msg, d, how) ==
  /\ apc = "attempting"
  /\ lastError' = msg
  /\ elapsed' = elapsed + d
  /\ outcomes' = Append(outcomes, how)
  /\ IF attempt < EffectiveMaxRetries(maxRetriesCfg)
       THEN /\ apc' = "backoff"
            /\ UNCHANGED <<status, emitted, inbox, result>>
       ELSE LET errorMessage ==
                  FailureMessage(EffectiveMaxRetries(maxRetriesCfg), msg)
            IN  /\ status' = "error"
                /\ emitted' = Append(emitted, Event("error", errorMessage))
                /\ inbox' = Deliver(inbox, eventListeners, "error")
                /\ result' = [success |-> FALSE, error |-> errorMessage,
                              attempts |-> attempt]
                /\ apc' = "returned"
  /\ UNCHANGED <<maxRetriesCfg, timeoutCfg, llm, llmManager, eventListeners,
                 attempt, calls, invocations, statusAtCall, callInput>>
  /\ UNCHANGED notAgentVars

\* AttemptSucceeds without the assignment this.status = 'idle'
AttemptSucceeds_keepsRunning(d) ==
  /\ apc = "attempting"
  /\ d < EffectiveTimeout(timeoutCfg)
  /\ elapsed' = elapsed + d
  /\ outcomes' = Append(outcomes, "ok")
  /\ emitted' = Append(emitted, Event("completed", NoError))
  /\ inbox' = Deliver(inbox, eventListeners, "completed")
  /\ result' = [success |-> TRUE, error |-> NoError, attempts |-> attempt]
  /\ apc' = "returned"
  /\ UNCHANGED <<maxRetriesCfg, timeoutCfg, llm, llmManager, eventListeners,
                 attempt, lastError, calls, invocations, statusAtCall,
                 callInput, status>>
  /\ UNCHANGED notAgentVars

\* doExecute resolves before the timeout
AttemptSucceeds(d) ==
  /\ apc = "attempting"
  /\ d < EffectiveTimeout(timeoutCfg)
  /\ elapsed' = elapsed + d
  /\ outcomes' = Append(outcomes, "ok")
  /\ status' = "idle"
  /\ emitted' = Append(emitted, Event("completed", NoError))
  /\ inbox' = Deliver(inbox, eventListeners, "completed")
  /\ result' = [success |-> TRUE, error |-> NoError, attempts |-> attempt]
  /\ apc' = "returned"
  /\ UNCHANGED <<maxRetriesCfg, timeoutCfg, llm, llmManager, eventListeners,
                 attempt, lastError, calls, invocations, statusAtCall,
                 callInput>>
  /\ UNCHANGED notAgentVars

\* doExecute rejects before the timeout, with its classified error
AttemptThrows(e, d) ==
  /\ d < EffectiveTimeout(timeoutCfg)
  /\ FailAttempt(ClassifyError(e), d, "threw")

\* doExecute does not settle: the timer of executeWithTimeout rejects
AttemptTimesOut ==
  FailAttempt(TimeoutMessage(EffectiveTimeout(timeoutCfg)),
              EffectiveTimeout(timeoutCfg), "timeout")

\* the delay before the next attempt is over: next iteration of the loop
BackoffElapses ==
  /\ apc = "backoff"
  /\ elapsed' = elapsed + BackoffDelay(attempt)
  /\ attempt' = attempt + 1
  /\ invocations' = invocations + 1
  /\ apc' = "attempting"
  /\ UNCHANGED <<maxRetriesCfg, timeoutCfg, llm, llmManager, status,
                 eventListeners, lastError, result, calls, outcomes, emitted,
                 inbox, statusAtCall, callInput>>
  /\ UNCHANGED notAgentVars

NextAgent ==
  \/ \E m \in {"unset", "empty", "ready"} : SetLLMManager(m)
  \/ \E l \in ListenerIds : AddEventListener(l)
  \/ \E l \in ListenerIds : RemoveEventListener(l)
  \/ ExecuteInvalid
  \/ ExecuteRejects
  \/ ExecuteBegin
  \/ \E d \in AttemptDurations : AttemptSucceeds(d)
  \/ \E e \in BackendErrors, d \in AttemptDurations : AttemptThrows(e, d)
  \/ AttemptTimesOut
  \/ BackoffElapses

\* ------------------------------------------------------------------------
\* BaseAgent: execute calls that overlap on one instance
\* ------------------------------------------------------------------------
\* The orchestrator holds one instance of each agent and every request
\* calls execute on it; a call left running by a step timeout is still in
\* flight when the next one is made.  status, llm and the listeners are
\* fields of the instance; attempt, lastError and the pending doExecute
\* promises belong to each call.
MaxOverlap == 2           \* execute calls made on the one instance

ExecuteCalls == 1..MaxOverlap

InitCalls ==
  /\ callPc = [c \in ExecuteCalls |-> "idle"]
  /\ callAttempt = [c \in ExecuteCalls |-> 0]
  /\ callResult = [c \in ExecuteCalls |-> NoResult]
  /\ lateAttempts = [c \in ExecuteCalls |-> 0]

\* the fields of the instance that no execute call assigns, and the
\* observations of the one-call-at-a-time operations
notCallAgentVars ==
  <<maxRetriesCfg, timeoutCfg, llmManager, eventListeners, apc, attempt,
    lastError, result, elapsed, calls, invocations, outcomes, statusAtCall,
    callInput>>

notCallVars == <<schedVars, orchVars, parVars, keyPointVars,
                 learningPathVars, quizVars, replayVars>>

\* execute up to its first await: validateInput, then await initializeLLM()
CallExecute(c, input) ==
  /\ callPc[c] = "idle"
  /\ IF input = "invalid"
       THEN /\ callResult' = [callResult EXCEPT ![c] =
                 [success |-> FALSE, error |-> InvalidInputMessage,
                  attempts |-> 0]]
            /\ callPc' = [callPc EXCEPT ![c] = "returned"]
       ELSE /\ callPc' = [callPc EXCEPT ![c] = "initializing"]
            /\ UNCHANGED callResult
  /\ UNCHANGED <<callAttempt, lateAttempts>>
  /\ UNCHANGED <<llm, status, emitted, inbox>>
  /\ UNCHANGED notCallAgentVars
  /\ UNCHANGED notCallVars

\* initializeLLM has settled: the call rejects, or status becomes running,
\* started is emitted and the first attempt begins
CallInitialized(c) ==
  /\ callPc[c] = "initializing"
  /\ IF ~LLMObtainable
       THEN /\ callPc' = [callPc EXCEPT ![c] = "rejected"]
            /\ UNCHANGED <<callAttempt, llm, status, emitted, inbox>>
       ELSE /\ llm' = TRUE
            /\ status' = "running"
            /\ emitted' = Append(emitted, Event("started", NoError))
            /\ inbox' = Deliver(inbox, eventListeners, "started")
            /\ callAttempt' = [callAttempt EXCEPT ![c] = 1]
            /\ callPc' = [callPc EXCEPT ![c] = "attempting"]
  /\ UNCHANGED <<callResult, lateAttempts>>
  /\ UNCHANGED notCallAgentVars
  /\ UNCHANGED notCallVars

\* doExecute resolves before the timer: status idle, completed, return
CallAttemptSucceeds(c) ==
  /\ callPc[c] = "attempting"
  /\ status' = "idle"
  /\ emitted' = Append(emitted, Event("completed", NoError))
  /\ inbox' = Deliver(inbox, eventListeners, "completed")
  /\ callResult' = [callResult EXCEPT ![c] =
       [success |-> TRUE, error |-> NoError, attempts |-> callAttempt[c]]]
  /\ callPc' = [callPc EXCEPT ![c] = "returned"]
  /\ UNCHANGED <<llm, callAttempt, lateAttempts>>
  /\ UNCHANGED notCallAgentVars
  /\ UNCHANGED notCallVars

\* the catch block of the retry loop and the code after the loop; pending:
\* the doExecute promise of the attempt has not settled (the timer won)
CallAttemptFails(c, msg, pending) ==
  /\ callPc[c] = "attempting"
  /\ lateAttempts' = [lateAttempts EXCEPT ![c] = IF pending THEN @ + 1 ELSE @]
  /\ IF callAttempt[c] < EffectiveMaxRetries(maxRetriesCfg)
       THEN /\ callPc' = [callPc EXCEPT ![c] = "backoff"]
            /\ UNCHANGED <<status, emitted, inbox, callResult>>
       ELSE LET errorMessage ==
                  FailureMessage(EffectiveMaxRetries(maxRetriesCfg), msg)
            IN  /\ status' = "error"
                /\ emitted' = Append(emitted, Event("error", errorMessage))
                /\ inbox' = Deliver(inbox, eventListeners, "error")
                /\ callResult' = [callResult EXCEPT ![c] =
                     [success |-> FALSE, error |-> errorMessage,
                      attempts |-> callAttempt[c]]]
                /\ callPc' = [callPc EXCEPT ![c] = "returned"]
  /\ UNCHANGED <<llm, callAttempt>>
  /\ UNCHANGED notCallAgentVars
  /\ UNCHANGED notCallVars

CallAttemptThrows(c, e) == CallAttemptFails(c, ClassifyError(e), FALSE)

\* the timer of executeWithTimeout rejects first: Promise.race settles with
\* the timeout error and the doExecute promise is left pending
CallAttemptTimesOut(c) ==
  CallAttemptFails(c, TimeoutMessage(EffectiveTimeout(timeoutCfg)), TRUE)

\* the delay is over: the next iteration of the loop calls doExecute again
CallBackoffElapses(c) ==
  /\ callPc[c] = "backoff"
  /\ callAttempt' = [callAttempt EXCEPT ![c] = @ + 1]
  /\ callPc' = [callPc EXCEPT ![c] = "attempting"]
  /\ UNCHANGED <<callResult, lateAttempts>>
  /\ UNCHANGED <<llm, status, emitted, inbox>>
  /\ UNCHANGED notCallAgentVars
  /\ UNCHANGED notCallVars

\* LateAttemptSettles where the value of the late doExecute is taken for
\* the result of the call: status idle and a completed event
LateAttemptSettles_adopted(c) ==
  /\ lateAttempts[c] > 0
  /\ lateAttempts' = [lateAttempts EXCEPT ![c] = @ - 1]
  /\ status' = "idle"
  /\ emitted' = Append(emitted, Event("completed", NoError))
  /\ inbox' = Deliver(inbox, eventListeners, "completed")
  /\ callResult' = [callResult EXCEPT ![c] =
       [success |-> TRUE, error |-> NoError, attempts |-> callAttempt[c]]]
  /\ UNCHANGED <<llm, callPc, callAttempt>>
  /\ UNCHANGED notCallAgentVars
  /\ UNCHANGED notCallVars

\* a doExecute promise that lost the race settles: the race has settled
\* already and its reactions are all that was attached to the promise
LateAttemptSettles(c) ==
  /\ lateAttempts[c] > 0
  /\ lateAttempts' = [lateAttempts EXCEPT ![c] = @ - 1]
  /\ UNCHANGED <<callPc, callAttempt, callResult>>
  /\ UNCHANGED <<llm, status, emitted, inbox>>
  /\ UNCHANGED notCallAgentVars
  /\ UNCHANGED notCallVars

\* getAgentsHealthStatus, for the one instance: getStatus() === 'idle'
GetAgentHealthStatus == status = "idle"

NextCalls ==
  \/ \E m \in {"unset", "empty", "ready"} : SetLLMManager(m)
  \/ \E c \in ExecuteCalls, input \in {"valid", "invalid"} : CallExecute(c, input)
  \/ \E c \in ExecuteCalls : CallInitialized(c)
  \/ \E c \in ExecuteCalls : CallAttemptSucceeds(c)
  \/ \E c \in ExecuteCalls, e \in BackendErrors : CallAttemptThrows(c, e)
  \/ \E c \in ExecuteCalls : CallAttemptTimesOut(c)
  \/ \E c \in ExecuteCalls : CallBackoffElapses(c)
  \/ \E c \in ExecuteCalls : LateAttemptSettles(c)

\* ------------------------------------------------------------------------
\* SimpleWorkflowExecutor: workflow definitions
\* ------------------------------------------------------------------------
MaxQuestionCount == 1     \* questionCount of the initial state: 0..MaxQuestionCount

Step(id, type, deps, cond) ==
  [id |-> id, type |-> type, dependencies |-> deps, condition |-> cond]

\* getWorkflowDefinitions()
WorkflowDefinitions ==
  [ document_analysis |->
      << Step("parse", "parse_document", {}, "none"),
         Step("extract", "extract_keypoints", {"parse"}, "none") >>,
    learning_generation |->
      << Step("extract", "extract_keypoints", {}, "none"),
         Step("generate_path", "generate_learning_path", {"extract"}, "none") >>,
    quiz_generation |->
      << Step("generate_quiz", "generate_quiz", {}, "none") >>,
    interactive_qa |->
      << Step("answer", "answer_question", {}, "none") >>,
    full_pipeline |->
      << Step("parse", "parse_document", {}, "none"),
         Step("extract", "extract_keypoints", {"parse"}, "none"),
         Step("generate_path", "generate_learning_path", {"extract"}, "none"),
         Step("generate_quiz", "generate_quiz", {"extract"}, "questionCount") >> ]

\* step graphs that getWorkflowDefinitions() does not contain, in the same
\* WorkflowDefinition shape: cycles, a missing dependency, conditions that
\* never hold or that an earlier-run step makes true
GraphDefinitions ==
  [ cycle2 |->
      << Step("a", "parse_document", {"b"}, "none"),
         Step("b", "extract_keypoints", {"a"}, "none") >>,
    self_loop |->
      << Step("a", "parse_document", {"a"}, "none") >>,
    tail_cycle |->
      << Step("parse", "parse_document", {}, "none"),
         Step("x", "extract_keypoints", {"parse", "y"}, "none"),
         Step("y", "generate_learning_path", {"x"}, "none") >>,
    missing_dep |->
      << Step("parse", "parse_document", {}, "none"),
         Step("extract", "extract_keypoints", {"nowhere"}, "none") >>,
    never_cond |->
      << Step("parse", "parse_document", {}, "none"),
         Step("answer", "answer_question", {}, "never") >>,
    late_cond |->
      << Step("generate_path", "generate_learning_path", {}, "hasKeyPoints"),
         Step("parse", "parse_document", {}, "none"),
         Step("extract", "extract_keypoints", {"parse"}, "none") >>,
    fan_out |->
      << Step("parse", "parse_document", {}, "none"),
         Step("answer", "answer_question", {}, "none"),
         Step("extract", "extract_keypoints", {"parse"}, "none"),
         Step("generate_quiz", "generate_quiz", {"parse", "extract"}, "none") >> ]

KnownWorkflowIds == DOMAIN WorkflowDefinitions
GraphIds == DOMAIN GraphDefinitions
UnknownWorkflowId == "no_such_workflow"

StepsOf(id) ==
  IF id \in KnownWorkflowIds THEN WorkflowDefinitions[id] ELSE GraphDefinitions[id]

\* ------------------------------------------------------------------------
\* SimpleWorkflowExecutor: WorkflowState
\* ------------------------------------------------------------------------
\* Partial<WorkflowState> given by the caller
InitialInputs ==
  [ url : BOOLEAN,
    documentContent : {"none", "input"},
    keyPoints : {"none", "empty", "input"},
    question : BOOLEAN,
    questionCount : 0..MaxQuestionCount ]

\* { ...initialState, errors: [], sessionId, completed: false }
InitialState(init) ==
  [ url |-> init.url,
    documentContent |-> init.documentContent,
    keyPoints |-> init.keyPoints,
    question |-> init.question,
    questionCount |-> init.questionCount,
    parsedDocument |-> "none",
    extractedKeyPoints |-> "none",
    generatedLearningPath |-> FALSE,
    generatedQuiz |-> FALSE,
    answer |-> FALSE,
    errors |-> <<>>,
    currentStep |-> "none",
    completed |-> FALSE ]

EmptyState ==
  InitialState([url |-> FALSE, documentContent |-> "none", keyPoints |-> "none",
                question |-> FALSE, questionCount |-> 0])

\* state = { ...state, ...stepResult }
Merge(st, partial) ==
  [f \in DOMAIN st |-> IF f \in DOMAIN partial THEN partial[f] ELSE st[f]]

StallError ==
  <<"Workflow", "execution", "stalled", "-", "possible", "circular",
    "dependencies", "or", "unmet", "conditions">>

StreamStallError == <<"Workflow", "execution", "stalled">>

\* `Step ${stepType} failed: ${error.message}`
StepFailure(stepType, why) == <<"Step", stepType, "failed", ":", why>>

\* state.parsedDocument || state.documentContent
DocumentOf(st) ==
  IF st.parsedDocument # "none" THEN st.parsedDocument ELSE st.documentContent

\* state.extractedKeyPoints || state.keyPoints
\* (an empty array is truthy, "none" is undefined)
KeyPointsOf(st) ==
  IF st.extractedKeyPoints # "none" THEN st.extractedKeyPoints ELSE st.keyPoints

\* the guard at the head of each execute<Step> method: the input that the
\* method throws on when missing
StepInputPresent(stepType, st) ==
  CASE stepType = "parse_document" -> st.url
    [] stepType = "extract_keypoints" -> DocumentOf(st) # "none"
    [] stepType = "generate_learning_path" -> KeyPointsOf(st) \notin {"none", "empty"}
    [] stepType = "generate_quiz" -> KeyPointsOf(st) \notin {"none", "empty"}
    [] stepType = "answer_question" -> st.question /\ st.documentContent # "none"

\* what each execute<Step> method returns when its agent returned success
StepSuccess(stepType) ==
  CASE stepType = "parse_document" ->
         [parsedDocument |-> "parsed", documentContent |-> "parsed",
          currentStep |-> "document_parsed"]
    [] stepType = "extract_keypoints" ->
         [extractedKeyPoints |-> "extracted", keyPoints |-> "extracted",
          currentStep |-> "keypoints_extracted"]
    [] stepType = "generate_learning_path" ->
         [generatedLearningPath |-> TRUE, currentStep |-> "learning_path_generated"]
    [] stepType = "generate_quiz" ->
         [generatedQuiz |-> TRUE, currentStep |-> "quiz_generated"]
    [] stepType = "answer_question" ->
         [answer |-> TRUE, currentStep |-> "question_answered"]

\* executeStep: the switch, and the catch that turns every throw (missing
\* input, agent result with success:false, agent call rejected) into a
\* partial state holding the extended errors list.  agentOk is the outcome
\* of the agent's execute call.
ExecuteStep(stepType, st, agentOk) ==
  IF ~StepInputPresent(stepType, st)
    THEN [errors |-> Append(st.errors, StepFailure(stepType, "input required"))]
  ELSE IF ~agentOk
    THEN [errors |-> Append(st.errors, StepFailure(stepType, "agent failed"))]
  ELSE StepSuccess(stepType)

\* CheckDependencies with some() in place of every()
CheckDependencies_some(step, completed) ==
  step.dependencies = {} \/ \E dep \in step.dependencies : dep \in completed

\* checkDependencies
CheckDependencies(step, completed) ==
  \A dep \in step.dependencies : dep \in completed

\* CheckCondition where the condition of generate_quiz is
\* (state.questionCount || 0) >= 0
CheckCondition_zeroAccepted(step, st) ==
  CASE step.condition = "none" -> TRUE
    [] step.condition = "questionCount" -> st.questionCount >= 0
    [] step.condition = "hasKeyPoints" -> KeyPointsOf(st) \notin {"none", "empty"}
    [] step.condition = "never" -> FALSE

\* checkCondition; the condition of full_pipeline's generate_quiz is
\* (state.questionCount || 0) > 0
CheckCondition(step, st) ==
  CASE step.condition = "none" -> TRUE
    [] step.condition = "questionCount" -> st.questionCount > 0
    [] step.condition = "hasKeyPoints" -> KeyPointsOf(st) \notin {"none", "empty"}
    [] step.condition = "never" -> FALSE

\* pendingSteps.splice(i, 1)
Splice(s, i) == SubSeq(s, 1, i - 1) \o SubSeq(s, i + 1, Len(s))

\* completedSteps.add(step.id)
MarkCompleted(completed, id) == completed \cup {id}

\* yield state (streamWorkflow only)
Yield(m, snaps, st) == IF m = "stream" THEN Append(snaps, st) ELSE snaps

\* ------------------------------------------------------------------------
\* SimpleWorkflowExecutor: the record of a finished executeWorkflow run
\* ------------------------------------------------------------------------
\* no executeWorkflow run has been recorded
NoRun ==
  [ id |-> "none", init |-> CHOOSE init \in InitialInputs : TRUE,
    state |-> EmptyState, started |-> <<>>, failedSteps |-> <<>>,
    returned |-> FALSE ]

InitReplay == firstRun = NoRun

\* ------------------------------------------------------------------------
\* SimpleWorkflowExecutor: initial state (after the constructor)
\* ------------------------------------------------------------------------
InitSched ==
  /\ spc = "ready"
  /\ mode = "none"
  /\ workflowId = "none"
  /\ workflow = <<>>
  /\ state = EmptyState
  /\ completedSteps = {}
  /\ pendingSteps = <<>>
  /\ scanIdx = 0
  /\ progressMade = FALSE
  /\ round = 0
  /\ started = <<>>
  /\ finished = {}
  /\ failedSteps = <<>>
  /\ snapshots = <<>>

\* ------------------------------------------------------------------------
\* SimpleWorkflowExecutor: executeWorkflow and streamWorkflow
\* ------------------------------------------------------------------------
\* the head of both methods, up to the first scan of the first round
StartRun(m, id, init) ==
  /\ mode' = m
  /\ workflowId' = id
  /\ IF id = UnknownWorkflowId
       THEN \* throw new Error(`Unknown workflow: ${workflowId}`)
            /\ spc' = "threw"
            /\ UNCHANGED <<workflow, state, completedSteps, pendingSteps,
                           scanIdx, progressMade, round, snapshots>>
       ELSE /\ workflow' = StepsOf(id)
            /\ state' = InitialState(init)
            /\ snapshots' = Yield(m, <<>>, InitialState(init))
            /\ completedSteps' = {}
            /\ pendingSteps' = StepsOf(id)
            /\ progressMade' = FALSE
            /\ round' = 1
            /\ scanIdx' = Len(StepsOf(id))
            /\ spc' = "scan"

BeginRun(m, id, init) ==
  /\ spc = "ready"
  /\ StartRun(m, id, init)
  /\ UNCHANGED <<started, finished, failedSteps>>
  /\ UNCHANGED notSchedVars

ExecuteWorkflow(id, init) == BeginRun("execute", id, init)

StreamWorkflow(id, init) == BeginRun("stream", id, init)

\* the step the scan is looking at: pendingSteps[i]
CurrentStep == pendingSteps[scanIdx]

\* the if of the scan
Runnable(step) ==
  CheckDependencies(step, completedSteps) /\ CheckCondition(step, state)

\* the scan passes over a step that is not runnable: i--
ScanSkip ==
  /\ spc = "scan"
  /\ scanIdx >= 1
  /\ ~Runnable(CurrentStep)
  /\ scanIdx' = scanIdx - 1
  /\ UNCHANGED <<spc, mode, workflowId, workflow, state, completedSteps,
                 pendingSteps,                 progressMade, round, started, finished, failedSteps,
                 snapshots>>
  /\ UNCHANGED notSchedVars

\* the scan finds a runnable step: executeStep is called and awaited
ScanStart ==
  /\ spc = "scan"
  /\ scanIdx >= 1
  /\ Runnable(CurrentStep)
  /\ spc' = "awaitStep"
  /\ started' = Append(started, [id |-> CurrentStep.id, round |-> round])
  /\ UNCHANGED <<mode, workflowId, workflow, state, completedSteps,
                 pendingSteps, scanIdx,                 progressMade, round, finished, failedSteps, snapshots>>
  /\ UNCHANGED notSchedVars

\* StepResolves without pendingSteps.splice(i, 1): the step stays pending
StepResolves_keepsPending(agentOk) ==
  /\ spc = "awaitStep"
  /\ LET stepResult == ExecuteStep(CurrentStep.type, state, agentOk)
         merged == Merge(state, stepResult)
     IN  /\ state' = merged
         /\ snapshots' = Yield(mode, snapshots, merged)
         /\ failedSteps' = IF "errors" \in DOMAIN stepResult
                             THEN Append(failedSteps, CurrentStep.id)
                             ELSE failedSteps
  /\ completedSteps' = MarkCompleted(completedSteps, CurrentStep.id)
  /\ progressMade' = TRUE
  /\ finished' = finished \cup {CurrentStep.id}
  /\ scanIdx' = scanIdx - 1
  /\ spc' = "scan"
  /\ UNCHANGED <<mode, workflowId, workflow, round, started, pendingSteps>>
  /\ UNCHANGED notSchedVars

\* StepResolves where a step that recorded an error is removed from
\* pendingSteps without being added to completedSteps
StepResolves_failedNotCompleted(agentOk) ==
  /\ spc = "awaitStep"
  /\ LET stepResult == ExecuteStep(CurrentStep.type, state, agentOk)
         merged == Merge(state, stepResult)
     IN  /\ state' = merged
         /\ snapshots' = Yield(mode, snapshots, merged)
         /\ failedSteps' = IF "errors" \in DOMAIN stepResult
                             THEN Append(failedSteps, CurrentStep.id)
                             ELSE failedSteps
         /\ completedSteps' = IF "errors" \in DOMAIN stepResult
                                THEN completedSteps
                                ELSE MarkCompleted(completedSteps, CurrentStep.id)
  /\ pendingSteps' = Splice(pendingSteps, scanIdx)
  /\ progressMade' = TRUE
  /\ finished' = finished \cup {CurrentStep.id}
  /\ scanIdx' = scanIdx - 1
  /\ spc' = "scan"
  /\ UNCHANGED <<mode, workflowId, workflow, round, started>>
  /\ UNCHANGED notSchedVars

\* executeStep resolves: merge, mark completed, splice, yield, i--.
\* executeStep wraps its whole switch in try/catch and returns a partial
\* state in both cases, so the awaited promise never rejects and the catch
\* branch of the scan is not reached.
StepResolves(agentOk) ==
  /\ spc = "awaitStep"
  /\ LET stepResult == ExecuteStep(CurrentStep.type, state, agentOk)
         merged == Merge(state, stepResult)
     IN  /\ state' = merged
         /\ snapshots' = Yield(mode, snapshots, merged)
         /\ failedSteps' = IF "errors" \in DOMAIN stepResult
                             THEN Append(failedSteps, CurrentStep.id)
                             ELSE failedSteps
  /\ completedSteps' = MarkCompleted(completedSteps, CurrentStep.id)
  /\ pendingSteps' = Splice(pendingSteps, scanIdx)
  /\ progressMade' = TRUE
  /\ finished' = finished \cup {CurrentStep.id}
  /\ scanIdx' = scanIdx - 1
  /\ spc' = "scan"
  /\ UNCHANGED <<mode, workflowId, workflow, round, started>>
  /\ UNCHANGED notSchedVars

\* end of a scan that made progress, steps remain: next round
NextRound ==
  /\ spc = "scan"
  /\ scanIdx = 0
  /\ progressMade
  /\ Len(pendingSteps) > 0
  /\ progressMade' = FALSE
  /\ round' = round + 1
  /\ scanIdx' = Len(pendingSteps)
  /\ UNCHANGED <<spc, mode, workflowId, workflow, state, completedSteps,
                 pendingSteps,                 started, finished, failedSteps, snapshots>>
  /\ UNCHANGED notSchedVars

\* Stall that breaks out of the loop without recording the stall error
Stall_silent ==
  /\ spc = "scan"
  /\ scanIdx = 0
  /\ ~progressMade
  /\ snapshots' = Yield(mode, snapshots, state)
  /\ spc' = "finish"
  /\ UNCHANGED <<mode, workflowId, workflow, state, completedSteps,
                 pendingSteps, scanIdx,                 progressMade, round, started, finished, failedSteps>>
  /\ UNCHANGED notSchedVars

\* end of a scan that made no progress: the stall error, yield, break
Stall ==
  /\ spc = "scan"
  /\ scanIdx = 0
  /\ ~progressMade
  /\ LET stalled == [state EXCEPT !.errors = Append(@,
                        IF mode = "stream" THEN StreamStallError ELSE StallError)]
     IN  /\ state' = stalled
         /\ snapshots' = Yield(mode, snapshots, stalled)
  /\ spc' = "finish"
  /\ UNCHANGED <<mode, workflowId, workflow, completedSteps, pendingSteps,
                 scanIdx,                 progressMade, round, started, finished, failedSteps>>
  /\ UNCHANGED notSchedVars

\* end of a scan that made progress, no step remains: the while loop exits
LoopExit ==
  /\ spc = "scan"
  /\ scanIdx = 0
  /\ progressMade
  /\ Len(pendingSteps) = 0
  /\ spc' = "finish"
  /\ UNCHANGED <<mode, workflowId, workflow, state, completedSteps,
                 pendingSteps, scanIdx,                 progressMade, round, started, finished, failedSteps,
                 snapshots>>
  /\ UNCHANGED notSchedVars

\* Finish of streamWorkflow without the last yield
Finish_noYield ==
  /\ spc = "finish"
  /\ state' = [state EXCEPT !.completed =
                  (Len(pendingSteps) = 0 /\ Len(state.errors) = 0)]
  /\ spc' = "done"
  /\ UNCHANGED <<mode, workflowId, workflow, completedSteps, pendingSteps,
                 scanIdx,                 progressMade, round, started, finished, failedSteps,
                 snapshots>>
  /\ UNCHANGED notSchedVars

\* state.completed = pendingSteps.length === 0 && errors.length === 0;
\* return state / yield state
Finish ==
  /\ spc = "finish"
  /\ LET final == [state EXCEPT !.completed =
                      (Len(pendingSteps) = 0 /\ Len(state.errors) = 0)]
     IN  /\ state' = final
         /\ snapshots' = Yield(mode, snapshots, final)
  /\ spc' = "done"
  /\ UNCHANGED <<mode, workflowId, workflow, completedSteps, pendingSteps,
                 scanIdx,                 progressMade, round, started, finished, failedSteps>>
  /\ UNCHANGED notSchedVars

NextSched ==
  \/ \E id \in KnownWorkflowIds \cup GraphIds \cup {UnknownWorkflowId},
        init \in InitialInputs : ExecuteWorkflow(id, init)
  \/ \E id \in KnownWorkflowIds \cup GraphIds \cup {UnknownWorkflowId},
        init \in InitialInputs : StreamWorkflow(id, init)
  \/ ScanSkip
  \/ ScanStart
  \/ \E agentOk \in BOOLEAN : StepResolves(agentOk)
  \/ NextRound
  \/ Stall
  \/ LoopExit
  \/ Finish

\* ------------------------------------------------------------------------
\* SimpleWorkflowExecutor: executeWorkflow, then streamWorkflow with the same
\* workflow, initial state and agent outcomes
\* ------------------------------------------------------------------------
notSchedReplayVars == <<agentVars, orchVars, parVars, keyPointVars,
                        learningPathVars, quizVars, callVars>>

\* executeWorkflow(id, init), the arguments kept for the second run
FirstExecuteWorkflow(id, init) ==
  /\ spc = "ready"
  /\ StartRun("execute", id, init)
  /\ firstRun' = [NoRun EXCEPT !.id = id, !.init = init]
  /\ UNCHANGED <<started, finished, failedSteps>>
  /\ UNCHANGED notSchedReplayVars

\* executeWorkflow has returned: what it returned is kept, and
\* streamWorkflow is called with the same arguments.  Each call builds its
\* own state, completedSteps and pendingSteps.
ThenStreamWorkflow ==
  /\ spc = "done"
  /\ mode = "execute"
  /\ firstRun' = [firstRun EXCEPT !.state = state, !.started = started,
                                  !.failedSteps = failedSteps,
                                  !.returned = TRUE]
  /\ StartRun("stream", firstRun.id, firstRun.init)
  /\ started' = <<>>
  /\ finished' = {}
  /\ failedSteps' = <<>>
  /\ UNCHANGED notSchedReplayVars

\* the agent called for the step answers the second run as it answered the
\* first; a step whose agent the first run did not reach answers freely
SameOutcome(agentOk) ==
  firstRun.returned
    /\ (\E k \in 1..Len(firstRun.started) :
          firstRun.started[k].id = CurrentStep.id)
    => (agentOk <=> CurrentStep.id \notin Range(firstRun.failedSteps))

StepResolvesAsBefore(agentOk) ==
  /\ spc = "awaitStep"
  /\ SameOutcome(agentOk)
  /\ StepResolves(agentOk)

NextReplay ==
  \/ \E id \in KnownWorkflowIds \cup GraphIds, init \in InitialInputs :
       FirstExecuteWorkflow(id, init)
  \/ ThenStreamWorkflow
  \/ ScanSkip
  \/ ScanStart
  \/ \E agentOk \in BOOLEAN : StepResolvesAsBefore(agentOk)
  \/ NextRound
  \/ Stall
  \/ LoopExit
  \/ Finish

\* ------------------------------------------------------------------------
\* AgentOrchestrator: agents, inputs and pipelines
\* ------------------------------------------------------------------------
OrchestratorTimeoutMs == 60000    \* defaultTimeout
MaxConcurrentAgents == 3          \* maxConcurrentAgents
QATimeoutMs == 25000

\* the executeWorkflow calls the one orchestrator serves, possibly at once
Requests == {"r1", "r2"}

\* initializeAgents: one instance of each agent, shared by all requests
AgentInstances ==
  {"documentParser", "keyPointExtractor", "learningPathAgent", "qaAgent",
   "quizAgent"}

\* the configuration each agent's constructor passes to super()
DocumentParserConfig == [maxRetries |-> 3, timeout |-> ParserTimeoutMs]

KeyPointExtractorConfig == [maxRetries |-> 2, timeout |-> DefaultTimeoutMs]

LearningPathConfig == [maxRetries |-> 2, timeout |-> DefaultTimeoutMs]

QAConfig == [maxRetries |-> 2, timeout |-> QATimeoutMs]

QuizConfig == [maxRetries |-> 2, timeout |-> DefaultTimeoutMs]

\* the agent each field of the orchestrator holds
AgentConfig ==
  [ documentParser |-> DocumentParserConfig,
    keyPointExtractor |-> KeyPointExtractorConfig,
    learningPathAgent |-> LearningPathConfig,
    qaAgent |-> QAConfig,
    quizAgent |-> QuizConfig ]

\* the longest an execute call of the agent can stay unsettled: every
\* attempt runs into executeWithTimeout's timeout, with the backoff delays
\* between the attempts
LongestExecuteMs(a) ==
  LET n == EffectiveMaxRetries(AgentConfig[a].maxRetries)
      t == EffectiveTimeout(AgentConfig[a].timeout)
  IN n * t + BackoffBaseMs * ((n * (n - 1)) \div 2)

\* the timeout promise of executeStep can win the race against this agent
StepCanTimeOut(a) == LongestExecuteMs(a) > OrchestratorTimeoutMs

WorkflowTypes ==
  {"document_analysis", "learning_generation", "interactive_qa",
   "quiz_generation", "full_pipeline"}

UnknownWorkflowType == "no_such_type"

BlankInput(t) ==
  [ type |-> t, url |-> FALSE, documentContent |-> FALSE,
    keyPoints |-> "none", question |-> FALSE, skipQuiz |-> FALSE ]

\* WorkflowInput: per type, the fields the workflow of that type reads
\* (skipQuiz: options.skipSteps includes 'quiz_generation')
WorkflowInputs ==
  {[BlankInput("document_analysis") EXCEPT !.url = u] : u \in BOOLEAN}
  \cup {[BlankInput("full_pipeline") EXCEPT !.url = u, !.skipQuiz = s] :
          u \in BOOLEAN, s \in BOOLEAN}
  \cup {[BlankInput("learning_generation") EXCEPT !.keyPoints = k] :
          k \in {"none", "empty", "input"}}
  \cup {[BlankInput("interactive_qa") EXCEPT !.question = q,
                                             !.documentContent = d] :
          q \in BOOLEAN, d \in BOOLEAN}
  \cup {[BlankInput("quiz_generation") EXCEPT !.documentContent = d] :
          d \in BOOLEAN}
  \cup {BlankInput(UnknownWorkflowType)}

\* one executeStep call of a workflow method: the step name, the agent
\* whose execute the step function calls, the local the data is kept in
PipelineStep(name, agent, field) ==
  [name |-> name, agent |-> agent, field |-> field]

DocumentParsingStep ==
  PipelineStep("document_parsing", "documentParser", "documentContent")

KeypointExtractionStep ==
  PipelineStep("keypoint_extraction", "keyPointExtractor", "keyPoints")

LearningPathStep ==
  PipelineStep("learning_path_generation", "learningPathAgent", "learningPath")

QuizGenerationStep == PipelineStep("quiz_generation", "quizAgent", "quiz")

QuestionAnsweringStep == PipelineStep("question_answering", "qaAgent", "answer")

\* the executeStep calls of the workflow method of the input's type, in order
PipelineOf(in) ==
  CASE in.type = "document_analysis" ->
         <<DocumentParsingStep, KeypointExtractionStep>>
    [] in.type = "learning_generation" -> <<LearningPathStep>>
    [] in.type = "interactive_qa" -> <<QuestionAnsweringStep>>
    [] in.type = "quiz_generation" -> <<QuizGenerationStep>>
    [] in.type = "full_pipeline" ->
         <<DocumentParsingStep, KeypointExtractionStep, LearningPathStep>>
         \o (IF in.skipQuiz THEN <<>> ELSE <<QuizGenerationStep>>)
    [] OTHER -> <<>>

\* the check at the head of each workflow method
RequiredInputPresent(in) ==
  CASE in.type = "document_analysis" -> in.url
    [] in.type = "full_pipeline" -> in.url
    [] in.type = "learning_generation" -> in.keyPoints = "input"
    [] in.type = "interactive_qa" -> in.question /\ in.documentContent
    [] in.type = "quiz_generation" -> in.documentContent
    [] OTHER -> TRUE

\* output.results: which of its fields are set
EmptyResults ==
  [ documentContent |-> FALSE, keyPoints |-> FALSE, learningPath |-> FALSE,
    answer |-> FALSE, quiz |-> FALSE ]

\* the WorkflowOutput executeWorkflow builds before the try
NewOutput ==
  [ success |-> FALSE, results |-> EmptyResults, stepsExecuted |-> <<>>,
    errors |-> <<>> ]

ErrorRecord(step, error) == [step |-> step, error |-> error]

\* new Error(`Operation timed out after ${timeout}ms`)
StepTimeoutMessage == "Operation timed out after 60000ms"

\* ------------------------------------------------------------------------
\* AgentOrchestrator: initial state (after the constructor)
\* ------------------------------------------------------------------------
InitOrch ==
  /\ wpc = [r \in Requests |-> "idle"]
  /\ winput = [r \in Requests |-> BlankInput("none")]
  /\ output = [r \in Requests |-> NewOutput]
  /\ locals = [r \in Requests |-> EmptyResults]
  /\ stepNo = [r \in Requests |-> 0]
  /\ inFlight = [a \in AgentInstances |-> 0]
  /\ invoked = [r \in Requests |-> <<>>]
  /\ stepOutcomes = [r \in Requests |-> <<>>]

\* ------------------------------------------------------------------------
\* AgentOrchestrator: executeWorkflow, the workflow methods, executeStep
\* ------------------------------------------------------------------------
\* the step request r awaits
AwaitedStep(r) == PipelineOf(winput[r])[stepNo[r]]

\* executeStep up to its await: stepFunction() makes the execute call on the
\* shared agent instance and the race with the timeout promise begins
StartStep(r, in, n, flights) ==
  /\ wpc' = [wpc EXCEPT ![r] = "awaiting"]
  /\ stepNo' = [stepNo EXCEPT ![r] = n]
  /\ inFlight' = [flights EXCEPT ![PipelineOf(in)[n].agent] = @ + 1]
  /\ invoked' = [invoked EXCEPT ![r] = Append(@, PipelineOf(in)[n].name)]

\* ReturnFailure without the catch of executeWorkflow: the error leaves the
\* method
ReturnFailure_rethrows(r, out, error) ==
  /\ output' = [output EXCEPT ![r] = out]
  /\ wpc' = [wpc EXCEPT ![r] = "raised"]

\* the catch of executeWorkflow: the error that ended the workflow method is
\* recorded against 'workflow_execution' and the output is returned
ReturnFailure(r, out, error) ==
  /\ output' = [output EXCEPT ![r] =
       [out EXCEPT !.errors = Append(@, ErrorRecord("workflow_execution", error))]]
  /\ wpc' = [wpc EXCEPT ![r] = "returned"]

\* StepFails without the push of the step's record: only the catch of
\* executeWorkflow records the error
StepFails_unrecorded(r, out, error) ==
  ReturnFailure(r, out, error)

\* the catch of executeStep records the error against the step and rethrows
StepFails(r, out, error) ==
  ReturnFailure(r,
    [out EXCEPT !.errors = Append(@, ErrorRecord(AwaitedStep(r).name, error))],
    error)

\* executeWorkflow, from the call to its first await or to its return
OrchestratorExecuteWorkflow(r, in) ==
  /\ wpc[r] = "idle"
  /\ winput' = [winput EXCEPT ![r] = in]
  /\ IF in.type \notin WorkflowTypes
       THEN /\ ReturnFailure(r, NewOutput, "Unknown workflow type")
            /\ UNCHANGED <<stepNo, inFlight, invoked>>
     ELSE IF ~RequiredInputPresent(in)
       THEN /\ ReturnFailure(r, NewOutput, "required input missing")
            /\ UNCHANGED <<stepNo, inFlight, invoked>>
     ELSE /\ StartStep(r, in, 1, inFlight)
          /\ UNCHANGED output
  /\ UNCHANGED <<locals, stepOutcomes>>
  /\ UNCHANGED notOrchVars

\* the workflow method after its last executeStep: output.results is set
\* from the locals, then executeWorkflow sets success and returns
ReturnSuccess(r, out, held) ==
  /\ output' = [output EXCEPT ![r] =
       [out EXCEPT !.results = held, !.success = TRUE]]
  /\ wpc' = [wpc EXCEPT ![r] = "returned"]

\* StepReturns without the check of result.success
StepReturns_ignoresFailure(r, ok) ==
  /\ wpc[r] = "awaiting"
  /\ LET step == AwaitedStep(r)
         flights == [inFlight EXCEPT ![step.agent] = @ - 1]
         executed == [output[r] EXCEPT !.stepsExecuted = Append(@, step.name)]
         held == [locals[r] EXCEPT ![step.field] = TRUE]
     IN /\ stepOutcomes' = [stepOutcomes EXCEPT ![r] =
             Append(@, IF ok THEN "success" ELSE "failure")]
        /\ locals' = [locals EXCEPT ![r] = held]
        /\ IF stepNo[r] < Len(PipelineOf(winput[r]))
             THEN /\ output' = [output EXCEPT ![r] = executed]
                  /\ StartStep(r, winput[r], stepNo[r] + 1, flights)
             ELSE /\ ReturnSuccess(r, executed, held)
                  /\ inFlight' = flights
                  /\ UNCHANGED <<stepNo, invoked>>
  /\ UNCHANGED winput
  /\ UNCHANGED notOrchVars

\* the awaited execute call wins the race with an AgentResult
StepReturns(r, ok) ==
  /\ wpc[r] = "awaiting"
  /\ LET step == AwaitedStep(r)
         flights == [inFlight EXCEPT ![step.agent] = @ - 1]
         executed == [output[r] EXCEPT !.stepsExecuted = Append(@, step.name)]
         held == [locals[r] EXCEPT ![step.field] = TRUE]
     IN /\ stepOutcomes' = [stepOutcomes EXCEPT ![r] =
             Append(@, IF ok THEN "success" ELSE "failure")]
        /\ IF ~ok
             THEN \* throw new Error(result.error || `Step ${stepName} failed`)
                  /\ StepFails(r, executed, "result.error")
                  /\ inFlight' = flights
                  /\ UNCHANGED <<locals, stepNo, invoked>>
           ELSE IF stepNo[r] < Len(PipelineOf(winput[r]))
             THEN /\ locals' = [locals EXCEPT ![r] = held]
                  /\ output' = [output EXCEPT ![r] = executed]
                  /\ StartStep(r, winput[r], stepNo[r] + 1, flights)
           ELSE /\ locals' = [locals EXCEPT ![r] = held]
                /\ ReturnSuccess(r, executed, held)
                /\ inFlight' = flights
                /\ UNCHANGED <<stepNo, invoked>>
  /\ UNCHANGED winput
  /\ UNCHANGED notOrchVars

\* the awaited execute call rejects (initializeLLM threw inside execute)
StepRejects(r) ==
  /\ wpc[r] = "awaiting"
  /\ stepOutcomes' = [stepOutcomes EXCEPT ![r] = Append(@, "rejected")]
  /\ StepFails(r, output[r], "Failed to initialize LLM")
  /\ inFlight' = [inFlight EXCEPT ![AwaitedStep(r).agent] = @ - 1]
  /\ UNCHANGED <<winput, locals, stepNo, invoked>>
  /\ UNCHANGED notOrchVars

\* the timeout promise wins the race: the execute call is left running
StepTimesOut(r) ==
  /\ wpc[r] = "awaiting"
  /\ StepCanTimeOut(AwaitedStep(r).agent)
  /\ stepOutcomes' = [stepOutcomes EXCEPT ![r] = Append(@, "timeout")]
  /\ StepFails(r, output[r], StepTimeoutMessage)
  /\ UNCHANGED <<winput, locals, stepNo, inFlight, invoked>>
  /\ UNCHANGED notOrchVars

\* the execute calls on agent a that a request is awaiting
AwaitedCalls(a) ==
  Cardinality({r \in Requests : wpc[r] = "awaiting" /\ AwaitedStep(r).agent = a})

\* an execute call whose step had timed out settles; nobody reads its result
AbandonedSettles(a) ==
  /\ inFlight[a] > AwaitedCalls(a)
  /\ inFlight' = [inFlight EXCEPT ![a] = @ - 1]
  /\ UNCHANGED <<wpc, winput, output, locals, stepNo, invoked, stepOutcomes>>
  /\ UNCHANGED notOrchVars

NextOrch ==
  \/ \E r \in Requests, in \in WorkflowInputs : OrchestratorExecuteWorkflow(r, in)
  \/ \E r \in Requests, ok \in BOOLEAN : StepReturns(r, ok)
  \/ \E r \in Requests : StepRejects(r)
  \/ \E r \in Requests : StepTimesOut(r)
  \/ \E a \in AgentInstances : AbandonedSettles(a)

\* ------------------------------------------------------------------------
\* AgentOrchestrator: executeParallelAgents
\* ------------------------------------------------------------------------
MaxAgents == 5            \* agents.length ranges over 0..MaxAgents

AgentIndices == 1..MaxAgents

\* the maxConcurrency argument: Absent takes the default value
ConcurrencyInputs == (1..MaxConcurrentAgents) \cup {Absent}

\* maxConcurrency: number = this.maxConcurrentAgents
ConcurrencyArgument(given) ==
  IF given = Absent THEN MaxConcurrentAgents ELSE given

InitParallel ==
  /\ ppc = "idle"
  /\ agentCount = 0
  /\ maxConcurrency = 0
  /\ loopIdx = 0
  /\ executing = <<>>
  /\ settledAgents = [k \in AgentIndices |-> "unstarted"]
  /\ raceWinner = 0
  /\ parResults = [k \in AgentIndices |-> 0]

\* the agent functions called and not yet settled
RunningAgents == {k \in AgentIndices : settledAgents[k] = "pending"}

IsSettled(k) == settledAgents[k] \in {"fulfilled", "rejected"}

\* Promise.race over promises of which some are settled already: the first
\* of them in array order settles the race (0: none is settled)
FirstSettled(promises) ==
  IF \E j \in 1..Len(promises) : IsSettled(promises[j])
    THEN promises[CHOOSE j \in 1..Len(promises) :
                    /\ IsSettled(promises[j])
                    /\ \A h \in 1..(j - 1) : ~IsSettled(promises[h])]
    ELSE 0

\* executing.splice(executing.findIndex(p => p === promise), 1)
SpliceOut(promises, p) ==
  LET at == CHOOSE j \in 1..Len(promises) : promises[j] = p
  IN SubSeq(promises, 1, at - 1) \o SubSeq(promises, at + 1, Len(promises))

\* the call, up to the head of the loop
ExecuteParallelAgents(n, given) ==
  /\ ppc = "idle"
  /\ agentCount' = n
  /\ maxConcurrency' = ConcurrencyArgument(given)
  /\ loopIdx' = 1
  /\ ppc' = "loop"
  /\ UNCHANGED <<executing, settledAgents, raceWinner, parResults>>
  /\ UNCHANGED notParVars

\* one iteration of the for loop, up to its await or to the next iteration
LoopIteration ==
  /\ ppc = "loop"
  /\ loopIdx <= agentCount
  /\ settledAgents' = [settledAgents EXCEPT ![loopIdx] = "pending"]
  /\ executing' = Append(executing, loopIdx)
  /\ IF Len(executing) + 1 >= maxConcurrency
       THEN \* await Promise.race(executing)
            /\ ppc' = "race"
            /\ raceWinner' = FirstSettled(executing)
            /\ UNCHANGED loopIdx
       ELSE /\ loopIdx' = loopIdx + 1
            /\ UNCHANGED <<ppc, raceWinner>>
  /\ UNCHANGED <<agentCount, maxConcurrency, parResults>>
  /\ UNCHANGED notParVars

\* an agent function's promise settles; the then-callback stores the result.
\* Nothing settles while the synchronous part of the loop runs.
AgentSettles(k, how) ==
  /\ ppc # "loop"
  /\ settledAgents[k] = "pending"
  /\ settledAgents' = [settledAgents EXCEPT ![k] = how]
  /\ parResults' = IF how = "fulfilled"
                     THEN [parResults EXCEPT ![k] = k]
                     ELSE parResults
  /\ raceWinner' = IF ppc = "race" /\ raceWinner = 0 /\ k \in Range(executing)
                     THEN k
                     ELSE raceWinner
  /\ UNCHANGED <<ppc, agentCount, maxConcurrency, loopIdx, executing>>
  /\ UNCHANGED notParVars

\* the awaited Promise.race settles: a rejection leaves the method, otherwise
\* the promise of THIS iteration is spliced out of executing
RaceSettles ==
  /\ ppc = "race"
  /\ raceWinner # 0
  /\ IF settledAgents[raceWinner] = "rejected"
       THEN /\ ppc' = "rejected"
            /\ UNCHANGED <<executing, loopIdx>>
       ELSE /\ executing' = SpliceOut(executing, loopIdx)
            /\ loopIdx' = loopIdx + 1
            /\ ppc' = "loop"
  /\ raceWinner' = 0
  /\ UNCHANGED <<agentCount, maxConcurrency, settledAgents, parResults>>
  /\ UNCHANGED notParVars

\* the loop is over: await Promise.all(executing)
AwaitAll ==
  /\ ppc = "loop"
  /\ loopIdx > agentCount
  /\ ppc' = "all"
  /\ UNCHANGED <<agentCount, maxConcurrency, loopIdx, executing,
                 settledAgents, raceWinner, parResults>>
  /\ UNCHANGED notParVars

\* Promise.all settles: rejected by the first rejection among executing,
\* fulfilled once all of executing are; then return results
AllSettles ==
  /\ ppc = "all"
  /\ IF \E j \in 1..Len(executing) : settledAgents[executing[j]] = "rejected"
       THEN ppc' = "rejected"
       ELSE /\ \A j \in 1..Len(executing) : settledAgents[executing[j]] = "fulfilled"
            /\ ppc' = "returned"
  /\ UNCHANGED <<agentCount, maxConcurrency, loopIdx, executing,
                 settledAgents, raceWinner, parResults>>
  /\ UNCHANGED notParVars

NextParallel ==
  \/ \E n \in 0..MaxAgents, given \in ConcurrencyInputs :
       ExecuteParallelAgents(n, given)
  \/ LoopIteration
  \/ \E k \in AgentIndices, how \in {"fulfilled", "rejected"} : AgentSettles(k, how)
  \/ RaceSettles
  \/ AwaitAll
  \/ AllSettles

\* ------------------------------------------------------------------------
\* Strings: sequences of characters
\* ------------------------------------------------------------------------
Whitespace == {" ", "\n"}

Min(a, b) == IF a <= b THEN a ELSE b

Repeat(c, n) == [k \in 1..n |-> c]

\* String.prototype.trim
Trim(s) ==
  LET inked == {k \in 1..Len(s) : s[k] \notin Whitespace}
  IN IF inked = {} THEN <<>>
     ELSE SubSeq(s, CHOOSE k \in inked : \A h \in inked : k <= h,
                    CHOOSE k \in inked : \A h \in inked : h <= k)

\* text.replace(/\s+/g, ' '): every run of whitespace becomes one space
CollapseWhitespace(s) ==
  LET marked == [k \in 1..Len(s) |->
                   IF s[k] \notin Whitespace THEN s[k]
                   ELSE IF k > 1 /\ s[k - 1] \in Whitespace THEN "dropped"
                   ELSE " "]
  IN SelectSeq(marked, LAMBDA c : c # "dropped")

\* BaseAgent.cleanText (the second replace finds no line break any more)
CleanText(s) == Trim(CollapseWhitespace(s))

\* text.substring(0, n)
Substring(s, n) == SubSeq(s, 1, Min(n, Len(s)))

\* String.prototype.toLowerCase over the letters of the model
LowerCaseOf(c) ==
  CASE c = "A" -> "a"
    [] c = "B" -> "b"
    [] OTHER -> c

ToLowerCase(s) == [k \in 1..Len(s) |-> LowerCaseOf(s[k])]

\* ------------------------------------------------------------------------
\* KeyPointExtractorAgent: key points and validateAndCleanKeyPoints
\* ------------------------------------------------------------------------
ConceptMaxLen == 100
DescriptionMaxLen == 300
DescriptionMinLen == 10
DefaultMaxKeyPoints == 8

MaxKeyPoints == 3         \* key point sequences have 0..MaxKeyPoints entries

KeyPoint(concept, description, importance) ==
  [concept |-> concept, description |-> description, importance |-> importance]

Importances == {"high", "medium", "low"}

LongDescription == Repeat("d", DescriptionMinLen + 1)

\* ten characters once trimmed: not long enough
ShortDescription == <<" ">> \o Repeat("d", DescriptionMinLen)

\* eleven characters, ten once its whitespace is collapsed
SpacedDescription == Repeat("d", 5) \o <<" ", " ">> \o Repeat("d", 4)

\* two concepts that differ only in character ConceptMaxLen + 1
LongConcept(last) == Repeat("a", ConceptMaxLen) \o <<last>>

\* the key points a parsed response may hold (a missing field is the empty
\* string: both are falsy)
KeyPointSamples ==
  { KeyPoint(<<"a">>, LongDescription, "high"),
    KeyPoint(<<"A">>, LongDescription, "critical"),
    KeyPoint(<<" ", "a", " ">>, LongDescription, "low"),
    KeyPoint(<<"b", " ", "\n", "B">>, LongDescription, "medium"),
    KeyPoint(<<" ">>, LongDescription, "high"),
    KeyPoint(<<"b">>, ShortDescription, "high"),
    KeyPoint(LongConcept("b"), LongDescription, "high"),
    KeyPoint(LongConcept("A"), LongDescription, "high"),
    KeyPoint(<<"c">>, SpacedDescription, "low") }

\* all sequences over a set, up to a length
SeqsUpTo(S, n) == UNION {[1..m -> S] : m \in 0..n}

\* Array.prototype.slice(0, n) for n >= 0
SliceTo(s, n) == SubSeq(s, 1, Min(n, Len(s)))

\* the two filters of validateAndCleanKeyPoints
HasConcept(kp) == Len(Trim(kp.concept)) > 0

HasDescription(kp) == Len(Trim(kp.description)) > DescriptionMinLen

\* the map of validateAndCleanKeyPoints
CleanKeyPoint(kp) ==
  [ concept |-> Substring(CleanText(kp.concept), ConceptMaxLen),
    description |-> Substring(CleanText(kp.description), DescriptionMaxLen),
    importance |-> IF kp.importance \in Importances THEN kp.importance
                   ELSE "medium" ]

\* arr.findIndex(other => other.concept.toLowerCase() === c.toLowerCase())
FindIndexOfConcept(arr, c) ==
  CHOOSE k \in 1..Len(arr) :
    /\ ToLowerCase(arr[k].concept) = ToLowerCase(c)
    /\ \A h \in 1..(k - 1) : ToLowerCase(arr[h].concept) # ToLowerCase(c)

\* the filter that keeps the first key point of each concept
UniqueKeyPoints(arr) ==
  LET kept == {k \in 1..Len(arr) : FindIndexOfConcept(arr, arr[k].concept) = k}
      RECURSIVE Pick(_)
      Pick(k) == IF k > Len(arr) THEN <<>>
                 ELSE (IF k \in kept THEN <<arr[k]>> ELSE <<>>) \o Pick(k + 1)
  IN Pick(1)

\* validateAndCleanKeyPoints without the removal of duplicates
ValidateAndCleanKeyPoints_keepsDuplicates(keyPts, maxCount) ==
  LET valid == SelectSeq(SelectSeq(keyPts, HasConcept), HasDescription)
  IN SliceTo([k \in 1..Len(valid) |-> CleanKeyPoint(valid[k])], maxCount)

\* validateAndCleanKeyPoints
ValidateAndCleanKeyPoints(keyPts, maxCount) ==
  LET valid == SelectSeq(SelectSeq(keyPts, HasConcept), HasDescription)
      cleaned == [k \in 1..Len(valid) |-> CleanKeyPoint(valid[k])]
  IN UniqueKeyPoints(SliceTo(cleaned, maxCount))

\* ------------------------------------------------------------------------
\* KeyPointExtractorAgent: the response text and parseKeyPointsResponse
\* ------------------------------------------------------------------------
MaxTextLen == 4           \* exhaustive response texts have 0..MaxTextLen chunks

\* a response text is a sequence of lexical chunks:
\*   "[" "]"    the brackets of an array literal
\*   "nl"       a line break
\*   "{kp}"     a well-formed object literal holding a valid key point
\*   "{short}"  a well-formed object literal whose description is too short
\*   "{bad}"    braces around text that is not a literal
\*   "1.x"      a numbered line start, marker and concept ("1. abc")
\*   "prose"    more than ten characters of prose without a marker
ResponseChunks == {"[", "]", "nl", "{kp}", "{short}", "{bad}", "1.x", "prose"}

ObjectChunks == {"{kp}", "{short}"}

BraceChunks == {"{kp}", "{short}", "{bad}"}

\* the value of a well-formed object literal
ObjectOf(chunk) ==
  IF chunk = "{kp}" THEN KeyPoint(<<"a">>, LongDescription, "high")
  ELSE KeyPoint(<<"b">>, ShortDescription, "high")

\* the characters of a chunk, as far as the line heuristic looks at them:
\* their number and a leading marker
ChunkText(chunk) ==
  CASE chunk = "[" -> <<"[">>
    [] chunk = "]" -> <<"]">>
    [] chunk = "nl" -> <<"\n">>
    [] chunk = "1.x" -> <<"1", ".", " ", "a", "b", "c">>
    [] chunk = "prose" -> Repeat("p", DescriptionMinLen + 1)
    [] OTHER -> <<"{">> \o Repeat("j", DescriptionMinLen) \o <<"}">>

\* longer responses: prose around a literal, a garbled literal followed by a
\* numbered list, a fenced literal, a numbered list with descriptions
SampleTexts ==
  { <<"prose", "nl", "[", "{kp}", "{short}", "]", "nl", "prose">>,
    <<"prose", "[", "{bad}", "]", "nl", "1.x", "nl", "prose">>,
    <<"[", "{kp}", "{bad}", "]", "nl", "1.x">>,
    <<"1.x", "nl", "prose", "nl", "1.x", "nl", "prose">>,
    <<"[", "nl", "{short}", "nl", "]", "nl", "1.x">>,
    <<"{kp}", "]", "nl", "[", "{kp}", "nl", "1.x">> }

ResponseTexts == SeqsUpTo(ResponseChunks, MaxTextLen) \cup SampleTexts

WithoutLineBreaks(text) == SelectSeq(text, LAMBDA c : c # "nl")

\* JSON.parse: NoValue when it throws
NoValue == [isArray |-> FALSE, items |-> <<>>, parsed |-> FALSE]

ArrayValue(items) == [isArray |-> TRUE, items |-> items, parsed |-> TRUE]

JsonParse(text) ==
  LET t == WithoutLineBreaks(text)
      n == Len(t)
  IN IF n >= 2 /\ t[1] = "[" /\ t[n] = "]"
          /\ \A k \in 2..(n - 1) : t[k] \in ObjectChunks
       THEN ArrayValue([k \in 1..(n - 2) |-> ObjectOf(t[k + 1])])
     ELSE IF n = 1 /\ t[1] \in ObjectChunks
       THEN [isArray |-> FALSE, items |-> <<>>, parsed |-> TRUE]
     ELSE NoValue

\* safeJsonParse(text, [])
SafeJsonParse(text) ==
  IF JsonParse(text).parsed THEN JsonParse(text) ELSE ArrayValue(<<>>)

\* the next chunk after position k that is not a line break (0: none)
NextChunkAfter(text, k) ==
  IF \E j \in (k + 1)..Len(text) : text[j] # "nl"
    THEN CHOOSE j \in (k + 1)..Len(text) :
           text[j] # "nl" /\ \A h \in (k + 1)..(j - 1) : text[h] = "nl"
    ELSE 0

PreviousChunkBefore(text, k) ==
  IF \E j \in 1..(k - 1) : text[j] # "nl"
    THEN CHOOSE j \in 1..(k - 1) :
           text[j] # "nl" /\ \A h \in (j + 1)..(k - 1) : text[h] = "nl"
    ELSE 0

\* positions where /\[\s*{/ and /}\s*\]/ match
OpensAt(text, k) ==
  /\ text[k] = "["
  /\ NextChunkAfter(text, k) # 0
  /\ text[NextChunkAfter(text, k)] \in BraceChunks

ClosesAt(text, k) ==
  /\ text[k] = "]"
  /\ PreviousChunkBefore(text, k) # 0
  /\ text[PreviousChunkBefore(text, k)] \in BraceChunks

\* responseText.match(/\[\s*{[\s\S]*}\s*\]/): the leftmost opening that has a
\* closing behind it, up to the last closing (<<>>: null)
BracketMatch(text) ==
  LET spans == {<<i, e>> \in (1..Len(text)) \X (1..Len(text)) :
                  OpensAt(text, i) /\ ClosesAt(text, e) /\ i < e}
  IN IF spans = {} THEN <<>>
     ELSE LET i == CHOOSE i \in {sp[1] : sp \in spans} :
                     \A sp \in spans : i <= sp[1]
              e == CHOOSE e \in {sp[2] : sp \in spans} :
                     \A sp \in spans : sp[1] = i => sp[2] <= e
          IN SubSeq(text, i, e)

\* text.split('\n'), over chunks
RECURSIVE SplitLines(_)
SplitLines(text) ==
  IF \E k \in 1..Len(text) : text[k] = "nl"
    THEN LET k == CHOOSE k \in 1..Len(text) :
                    text[k] = "nl" /\ \A h \in 1..(k - 1) : text[h] # "nl"
         IN <<SubSeq(text, 1, k - 1)>> \o SplitLines(SubSeq(text, k + 1, Len(text)))
    ELSE <<text>>

RECURSIVE LineText(_)
LineText(line) ==
  IF line = <<>> THEN <<>> ELSE ChunkText(Head(line)) \o LineText(Tail(line))

Digits == {"0", "1", "2", "3", "4", "5", "6", "7", "8", "9"}

RECURSIVE DigitRun(_)
DigitRun(s) == IF s # <<>> /\ Head(s) \in Digits THEN 1 + DigitRun(Tail(s)) ELSE 0

\* the length of the match of /^\d+\.|^-|^\*/ (0: no match)
MarkerLen(s) ==
  IF s = <<>> THEN 0
  ELSE IF DigitRun(s) > 0 /\ DigitRun(s) < Len(s) /\ s[DigitRun(s) + 1] = "."
    THEN DigitRun(s) + 1
  ELSE IF Head(s) \in {"-", "*"} THEN 1
  ELSE 0

UnknownConcept == <<"U", "n", "k", "n", "o", "w", "n">>
NoDescriptionAvailable == Repeat("n", 24)

\* completeKeyPoint
CompleteKeyPoint(partial) ==
  KeyPoint(IF partial.concept = <<>> THEN UnknownConcept ELSE partial.concept,
           IF partial.description = <<>> THEN NoDescriptionAvailable
           ELSE partial.description,
           "medium")

EmptyPartial == [concept |-> <<>>, description |-> <<>>]

\* the loop of parseKeyPointsFromText over the remaining lines
RECURSIVE KeyPointsFromLines(_, _, _)
KeyPointsFromLines(lines, current, keyPts) ==
  IF lines = <<>>
    THEN IF current.concept # <<>>
           THEN Append(keyPts, CompleteKeyPoint(current))
           ELSE keyPts
  ELSE LET trimmedLine == Trim(LineText(Head(lines)))
       IN IF MarkerLen(trimmedLine) > 0 /\ Len(trimmedLine) > 5
            THEN KeyPointsFromLines(Tail(lines),
                   [ concept |-> Trim(SubSeq(trimmedLine, MarkerLen(trimmedLine) + 1,
                                             Len(trimmedLine))),
                     description |-> <<>> ],
                   IF current.concept # <<>>
                     THEN Append(keyPts, CompleteKeyPoint(current))
                     ELSE keyPts)
          ELSE IF Len(trimmedLine) > DescriptionMinLen /\ current.concept # <<>>
            THEN KeyPointsFromLines(Tail(lines),
                   [current EXCEPT !.description = @ \o <<" ">> \o trimmedLine],
                   keyPts)
          ELSE KeyPointsFromLines(Tail(lines), current, keyPts)

\* parseKeyPointsFromText
ParseKeyPointsFromText(text) ==
  KeyPointsFromLines(SplitLines(text), EmptyPartial, <<>>)

\* parseKeyPointsResponse: the key points and the strategy that returned them
ParseKeyPointsResponse(text) ==
  IF SafeJsonParse(text).isArray /\ Len(SafeJsonParse(text).items) > 0
    THEN [by |-> "whole", items |-> SafeJsonParse(text).items]
  ELSE IF BracketMatch(text) # <<>> /\ SafeJsonParse(BracketMatch(text)).isArray
    THEN [by |-> "bracket", items |-> SafeJsonParse(BracketMatch(text)).items]
  ELSE [by |-> "lines", items |-> ParseKeyPointsFromText(text)]

\* ------------------------------------------------------------------------
\* KeyPointExtractorAgent: doExecute, from the response of the backend on
\* ------------------------------------------------------------------------
PendingOutcome == [ok |-> FALSE, error |-> <<"pending">>]

Returned == [ok |-> TRUE, error |-> <<>>]

Threw(message) == [ok |-> FALSE, error |-> message]

\* new Error('No valid key points extracted from the document')
NoValidKeyPointsMessage ==
  <<"No", "valid", "key", "points", "extracted", "from", "the", "document">>

\* const {documentContent, userLevel, maxKeyPoints = 8} = input
MaxKeyPointsArgument(given) ==
  IF given = Absent THEN DefaultMaxKeyPoints ELSE given

InitKeyPointIdle ==
  /\ kpc = "idle"
  /\ responseText = <<>>
  /\ maxKeyPoints = DefaultMaxKeyPoints
  /\ keyPoints = <<>>
  /\ parsedBy = "none"
  /\ validatedKeyPoints = <<>>
  /\ kpResult = PendingOutcome

\* chain.invoke has resolved with a response text
InitKeyPointResponded ==
  /\ kpc = "responded"
  /\ responseText \in ResponseTexts
  /\ maxKeyPoints \in {MaxKeyPointsArgument(given) : given \in {Absent, 1}}
  /\ keyPoints = <<>>
  /\ parsedBy = "none"
  /\ validatedKeyPoints = <<>>
  /\ kpResult = PendingOutcome

\* parseKeyPointsResponse has returned the array of a response literal
InitKeyPointParsed ==
  /\ kpc = "parsed"
  /\ responseText = <<>>
  /\ maxKeyPoints \in 0..(MaxKeyPoints + 1)
  /\ keyPoints \in SeqsUpTo(KeyPointSamples, MaxKeyPoints)
  /\ parsedBy = "whole"
  /\ validatedKeyPoints = <<>>
  /\ kpResult = PendingOutcome

\* the key points are a sequence validateAndCleanKeyPoints has returned
InitKeyPointNormalised ==
  /\ kpc = "parsed"
  /\ responseText = <<>>
  /\ maxKeyPoints \in 0..(MaxKeyPoints + 1)
  /\ keyPoints \in {ValidateAndCleanKeyPoints(keyPts, maxKeyPoints) :
                      keyPts \in SeqsUpTo(KeyPointSamples, MaxKeyPoints)}
  /\ parsedBy = "whole"
  /\ validatedKeyPoints = <<>>
  /\ kpResult = PendingOutcome

\* doExecute from the response on: parseKeyPointsResponse,
\* validateAndCleanKeyPoints, the length check, the return and the catch block
KeyPointDoExecuteCompletes ==
  /\ kpc = "responded"
  /\ keyPoints' = ParseKeyPointsResponse(responseText).items
  /\ parsedBy' = ParseKeyPointsResponse(responseText).by
  /\ validatedKeyPoints' = ValidateAndCleanKeyPoints(keyPoints', maxKeyPoints)
  /\ IF Len(validatedKeyPoints') = 0
       THEN /\ kpResult' = Threw(ClassifyError(NoValidKeyPointsMessage))
            /\ kpc' = "threw"
       ELSE /\ kpResult' = Returned
            /\ kpc' = "returned"
  /\ UNCHANGED <<responseText, maxKeyPoints>>
  /\ UNCHANGED notKeyPointVars

NextKeyPoint == KeyPointDoExecuteCompletes

\* validateAndCleanKeyPoints applied to the arguments of the state
ValidateKeyPoints ==
  /\ kpc = "parsed"
  /\ validatedKeyPoints' = ValidateAndCleanKeyPoints(keyPoints, maxKeyPoints)
  /\ kpc' = "validated"
  /\ UNCHANGED <<responseText, maxKeyPoints, keyPoints, parsedBy, kpResult>>
  /\ UNCHANGED notKeyPointVars

NextKeyPointValidation == ValidateKeyPoints

\* ------------------------------------------------------------------------
\* LearningPathAgent: learning steps and optimizeLearningPath
\* ------------------------------------------------------------------------
StepNameMaxLen == 100
StepDescriptionMaxLen == 500
MaxPathSteps == 8
MinPathSteps == 3

MaxSteps == 9             \* parsed step lists have 0..MaxSteps entries

UserLevels == {"beginner", "advanced"}

LearningStep(step, time, description) ==
  [step |-> step, time |-> time, description |-> description]

DigitChars == <<"0", "1", "2", "3", "4", "5", "6", "7", "8", "9">>

DigitValue(c) == (CHOOSE k \in 1..10 : DigitChars[k] = c) - 1

\* parseInt of a run of digits
RECURSIVE ParseInt(_)
ParseInt(ds) ==
  IF ds = <<>> THEN 0
  ELSE 10 * ParseInt(SubSeq(ds, 1, Len(ds) - 1)) + DigitValue(ds[Len(ds)])

\* `${n}`
RECURSIVE DigitsOf(_)
DigitsOf(n) ==
  IF n < 10 THEN <<DigitChars[n + 1]>>
  ELSE DigitsOf(n \div 10) \o <<DigitChars[(n % 10) + 1]>>

\* time.match(/\d+/): the first run of digits (<<>>: null)
FirstDigitRun(s) ==
  IF \E k \in 1..Len(s) : s[k] \in Digits
    THEN LET from == CHOOSE k \in 1..Len(s) :
                       s[k] \in Digits /\ \A h \in 1..(k - 1) : s[h] \notin Digits
         IN SubSeq(s, from, from + DigitRun(SubSeq(s, from, Len(s))) - 1)
    ELSE <<>>

Max(a, b) == IF a >= b THEN a ELSE b

\* Math.ceil(number * 1.2) and Math.ceil(number * 0.8), for the numbers of
\* the model (multiples of ten, where the products are exact)
ScaleUp(n) == (n * 12 + 9) \div 10

ScaleDown(n) == (n * 8 + 9) \div 10

Minutes(n) == DigitsOf(n) \o <<"fenzhong">>

\* normalizeTimeEstimate
NormalizeTimeEstimate(time, level) ==
  IF Len(Trim(time)) = 0 \/ FirstDigitRun(time) = <<>>
    THEN IF level = "beginner" THEN Minutes(45) ELSE Minutes(30)
  ELSE IF level = "beginner"
    THEN Minutes(Max(30, ScaleUp(ParseInt(FirstDigitRun(time)))))
  ELSE Minutes(Max(15, ScaleDown(ParseInt(FirstDigitRun(time)))))

\* the default steps of addDefaultSteps
BeginnerDefaultSteps ==
  << LearningStep(<<"huanjing", "zhunbei">>, Minutes(30), Repeat("d", 19)),
     LearningStep(<<"hexin", "gainian">>, Minutes(45), Repeat("d", 16)),
     LearningStep(<<"shijian", "lianxi">>, Minutes(60), Repeat("d", 13)) >>

AdvancedDefaultSteps ==
  << LearningStep(<<"gaoji", "texing">>, Minutes(30), Repeat("d", 12)),
     LearningStep(<<"zuijia", "shijian">>, Minutes(45), Repeat("d", 11)) >>

\* addDefaultSteps
AddDefaultSteps(existingSteps, level) ==
  SliceTo(existingSteps \o (IF level = "beginner" THEN BeginnerDefaultSteps
                            ELSE AdvancedDefaultSteps),
          MaxPathSteps)

\* the two filters of optimizeLearningPath
HasStepName(st) == Len(Trim(st.step)) > 0

HasStepDescription(st) == Len(Trim(st.description)) > DescriptionMinLen

\* the first map of optimizeLearningPath
CleanStep(st, level) ==
  [ step |-> Substring(CleanText(st.step), StepNameMaxLen),
    description |-> Substring(CleanText(st.description), StepDescriptionMaxLen),
    time |-> NormalizeTimeEstimate(st.time, level) ]

\* step.step.startsWith(`${index + 1}.`) ? step.step : `${index + 1}. ${step.step}`
NumberedStep(st, index) ==
  LET prefix == DigitsOf(index) \o <<".">>
  IN IF Len(st.step) >= Len(prefix) /\ SubSeq(st.step, 1, Len(prefix)) = prefix
       THEN st
       ELSE [st EXCEPT !.step = prefix \o <<" ">> \o @]

\* optimizeLearningPath
OptimizeLearningPath(steps, level) ==
  LET valid == SelectSeq(SelectSeq(steps, HasStepName), HasStepDescription)
      cleaned == [k \in 1..Len(valid) |-> CleanStep(valid[k], level)]
      sized == IF Len(cleaned) > MaxPathSteps
                 THEN SliceTo(cleaned, MaxPathSteps)
               ELSE IF Len(cleaned) < MinPathSteps
                 THEN AddDefaultSteps(cleaned, level)
               ELSE cleaned
  IN [k \in 1..Len(sized) |-> NumberedStep(sized[k], k)]

\* the steps a parsed response may hold
ValidStep == LearningStep(<<"s">>, <<"2", "0", "m">>, LongDescription)

UndescribedStep == LearningStep(<<"s">>, <<>>, ShortDescription)

UnnamedStep == LearningStep(<<" ">>, <<"s", "o", "o", "n">>, LongDescription)

NumberedValidStep == LearningStep(<<"2", ".", " ", "s">>, <<"1", "h">>, LongDescription)

ParsedStepLists ==
  SeqsUpTo({ValidStep, UndescribedStep}, MaxSteps)
  \cup SeqsUpTo({ValidStep, UnnamedStep, NumberedValidStep}, 3)

\* ------------------------------------------------------------------------
\* LearningPathAgent: doExecute, from the parsed response on
\* ------------------------------------------------------------------------
\* new Error('No valid learning steps generated')
NoValidStepsMessage == <<"No", "valid", "learning", "steps", "generated">>

InitLearningPathIdle ==
  /\ lpc = "idle"
  /\ userLevel = "beginner"
  /\ learningSteps = <<>>
  /\ optimizedSteps = <<>>
  /\ lpResult = PendingOutcome

\* parseLearningPathResponse has returned the array of a response literal
InitLearningPathParsed ==
  /\ lpc = "parsed"
  /\ userLevel \in UserLevels
  /\ learningSteps \in ParsedStepLists
  /\ optimizedSteps = <<>>
  /\ lpResult = PendingOutcome

\* the learning steps are a sequence optimizeLearningPath has returned for
\* the same user level
InitLearningPathNormalised ==
  /\ lpc = "parsed"
  /\ userLevel \in UserLevels
  /\ learningSteps \in {OptimizeLearningPath(steps, userLevel) :
                          steps \in ParsedStepLists}
  /\ optimizedSteps = <<>>
  /\ lpResult = PendingOutcome

\* doExecute from the parsed response on: optimizeLearningPath, the length
\* check, the return and the catch block
LearningPathDoExecuteCompletes ==
  /\ lpc = "parsed"
  /\ optimizedSteps' = OptimizeLearningPath(learningSteps, userLevel)
  /\ IF Len(optimizedSteps') = 0
       THEN /\ lpResult' = Threw(ClassifyError(NoValidStepsMessage))
            /\ lpc' = "threw"
       ELSE /\ lpResult' = Returned
            /\ lpc' = "returned"
  /\ UNCHANGED <<userLevel, learningSteps>>
  /\ UNCHANGED notLearningPathVars

NextLearningPath == LearningPathDoExecuteCompletes

\* ------------------------------------------------------------------------
\* QuizAgent: questions and validateAndNormalizeQuestion
\* ------------------------------------------------------------------------
\* the Chinese words of the source are written in pinyin, one string a word
DefaultQuestionCount == 5
MinOptions == 2

MaxQuestions == 2         \* response literals hold 0..MaxQuestions questions
MaxLines == 4             \* plain-text responses have 0..MaxLines lines

\* the four default options, 'xuanxiang A' to 'xuanxiang D'
DefaultOptions == << <<"xuanxiangA">>, <<"xuanxiangB">>, <<"xuanxiangC">>, <<"xuanxiangD">> >>

TrueFalseOptions == << <<"zhengque">>, <<"cuowu">> >>

Blank == <<"_", "_", "_", "_", "_">>

\* an element of the parsed array; a missing string field is the empty
\* string (both are falsy), optionsGiven tells whether options is an array
RawQuestion(type, question, optionsGiven, options, correctAnswer, difficulty) ==
  [ type |-> type, question |-> question, optionsGiven |-> optionsGiven,
    options |-> options, correctAnswer |-> correctAnswer,
    difficulty |-> difficulty ]

\* the object literals a response may hold, by name
RawQuestions ==
  [ good |-> RawQuestion("multiple_choice", <<"q", "1">>, TRUE,
                         << <<"x">>, <<"y">> >>, <<"x">>, "easy"),
    wrong |-> RawQuestion("multiple_choice", <<"q", "2">>, TRUE,
                          << <<"x">>, <<"y">> >>, <<"z">>, "hard"),
    single |-> RawQuestion("multiple_choice", <<"q", "3">>, TRUE,
                           << <<"x">> >>, <<"x">>, "medium"),
    bare |-> RawQuestion("", <<"Q", " ", "1">>, FALSE, <<>>, <<>>, "trivial"),
    spaced |-> RawQuestion("multiple_choice", <<"q", "4">>, TRUE,
                           << <<" ", "x", " ">>, <<"y">> >>, <<>>, "easy"),
    truth |-> RawQuestion("true_false", <<"q", "5">>, FALSE, <<>>,
                          <<"y">>, "hard"),
    gap |-> RawQuestion("fill_blank", <<"q", "6">>, TRUE,
                        << <<"x">>, <<"y">> >>, <<"x">>, "medium") ]

\* the element a string of an array literal is read as: every field undefined
StringAsQuestion == RawQuestion("", <<>>, FALSE, <<>>, <<>>, "")

Difficulties == {"easy", "medium", "hard"}

Contains(s, part) ==
  \E k \in 1..(Len(s) - Len(part) + 1) : SubSeq(s, k, k + Len(part) - 1) = part

\* `timu ${index}`
QuestionTitle(index) == <<"timu", " ">> \o DigitsOf(index)

\* validateAndNormalizeQuestion
ValidateAndNormalizeQuestion(q, index) ==
  LET normalized ==
        [ type |-> IF q.type = "" THEN "multiple_choice" ELSE q.type,
          question |-> CleanText(IF q.question = <<>> THEN QuestionTitle(index)
                                 ELSE q.question),
          options |-> IF q.optionsGiven
                        THEN [k \in 1..Len(q.options) |-> CleanText(q.options[k])]
                        ELSE DefaultOptions,
          correctAnswer |-> CleanText(
              IF q.correctAnswer # <<>> THEN q.correctAnswer
              ELSE IF q.optionsGiven /\ Len(q.options) > 0 /\ q.options[1] # <<>>
                THEN q.options[1]
              ELSE <<"xuanxiangA">>),
          difficulty |-> IF q.difficulty \in Difficulties THEN q.difficulty
                         ELSE "medium" ]
  IN IF normalized.type = "multiple_choice" /\ Len(normalized.options) < MinOptions
       THEN [normalized EXCEPT !.options = DefaultOptions,
                               !.correctAnswer = <<"xuanxiangA">>]
     ELSE IF normalized.type = "true_false"
       THEN [normalized EXCEPT
               !.options = TrueFalseOptions,
               !.correctAnswer = IF @ \in Range(TrueFalseOptions) THEN @
                                 ELSE <<"zhengque">>]
     ELSE IF normalized.type = "fill_blank"
       THEN [normalized EXCEPT
               !.options = <<>>,
               !.question = IF Contains(@, Blank) THEN @
                            ELSE @ \o <<" ">> \o Blank]
     ELSE normalized

\* ------------------------------------------------------------------------
\* QuizAgent: the raw output and parseQuizQuestions
\* ------------------------------------------------------------------------
\* the raw output is a sequence of lines, each a string: the fence lines,
\* the brackets of an array literal, an object literal <<"{", name, "}">>,
\* or a line of plain text
\* "fence" stands for the three backquotes of a code fence
FenceOpen == <<"fence", "json">>
FenceClose == <<"fence">>
ArrayOpen == <<"[">>
ArrayClose == <<"]">>

ObjectLine(name) == <<"{", name, "}">>

ObjectLines == {ObjectLine(name) : name \in DOMAIN RawQuestions}

\* the object literals that hold an options array, hence brackets
BracketedObjectLines ==
  {ObjectLine(name) : name \in {n \in DOMAIN RawQuestions : RawQuestions[n].optionsGiven}}

QuestionLine == <<"1", ".", " ", "q">>
OptionLineA == <<"A", ".", " ", "x">>
OptionLineB == <<"B", ")", " ", "y">>
AnswerLineA == <<"daan", ":", " ", "A">>
AnswerLineD == <<"zhengque", "daan", ":", " ", "D">>
ProseLine == <<"p", "r", "o", "s", "e">>

TextLines ==
  {QuestionLine, OptionLineA, OptionLineB, AnswerLineA, AnswerLineD, ProseLine}

ArrayLiterals ==
  {<<ArrayOpen>> \o objs \o <<ArrayClose>> : objs \in SeqsUpTo(ObjectLines, MaxQuestions)}

RawOutputs ==
  {<<FenceOpen>> \o a \o <<FenceClose>> : a \in ArrayLiterals}
  \cup ArrayLiterals
  \cup SeqsUpTo(TextLines, MaxLines)
  \cup { <<FenceOpen, FenceClose>>,
         <<FenceOpen, ObjectLine("good"), FenceClose>>,
         <<ProseLine, FenceOpen, ArrayOpen, ObjectLine("good"), ArrayClose>>,
         <<ObjectLine("good")>>,
         <<ObjectLine("bare"), ArrayClose>>,
         <<FenceOpen, ArrayOpen, ProseLine, ArrayClose, FenceClose,
           QuestionLine, OptionLineA>> }

\* JSON.parse of a sequence of lines: an array of object literals, one
\* object literal, or a SyntaxError (parsed = FALSE)
QuizJsonParse(lines) ==
  LET n == Len(lines)
  IN IF n >= 2 /\ lines[1] = ArrayOpen /\ lines[n] = ArrayClose
          /\ \A k \in 2..(n - 1) : lines[k] \in ObjectLines
       THEN ArrayValue([k \in 1..(n - 2) |-> RawQuestions[lines[k + 1][2]]])
     ELSE IF n = 1 /\ lines[1] \in ObjectLines
       THEN [isArray |-> FALSE, items |-> <<>>, parsed |-> TRUE]
     ELSE NoValue

FirstIndex(lines, Among) ==
  IF \E k \in 1..Len(lines) : lines[k] \in Among
    THEN CHOOSE k \in 1..Len(lines) :
           lines[k] \in Among /\ \A h \in 1..(k - 1) : lines[h] \notin Among
    ELSE 0

\* jsonMatch[1] || jsonMatch[0] as the value JSON.parse gives it, for
\* rawOutput.match(/```json\s*([\s\S]*?)\s*```/): the lines between the
\* first fence and the next line that starts with a fence.
\* found = FALSE: the pattern does not match
FencedLiteral(lines) ==
  LET i == FirstIndex(lines, {FenceOpen})
      rest == SubSeq(lines, i + 1, Len(lines))
      e == FirstIndex(rest, {FenceOpen, FenceClose})
  IN IF i = 0 \/ e = 0 THEN [found |-> FALSE, value |-> NoValue]
     ELSE [found |-> TRUE, value |-> QuizJsonParse(SubSeq(rest, 1, e - 1))]

\* the same for rawOutput.match(/\[\s*[\s\S]*?\]/): from the first opening
\* bracket to the first closing bracket behind it.  The brackets of an
\* options array count: a match that ends inside an object literal does not
\* parse, a match that is an options array parses to an array of strings.
BracketedLiteral(lines) ==
  LET i == FirstIndex(lines, {ArrayOpen} \cup BracketedObjectLines)
      rest == SubSeq(lines, i + 1, Len(lines))
      e == FirstIndex(rest, {ArrayClose} \cup BracketedObjectLines)
  IN IF i = 0 THEN [found |-> FALSE, value |-> NoValue]
     ELSE IF lines[i] \in BracketedObjectLines
       THEN [found |-> TRUE,
             value |-> ArrayValue([k \in 1..Len(RawQuestions[lines[i][2]].options)
                                     |-> StringAsQuestion])]
     ELSE IF e = 0 THEN [found |-> FALSE, value |-> NoValue]
     ELSE IF rest[e] = ArrayClose
       THEN [found |-> TRUE, value |-> QuizJsonParse(SubSeq(lines, i, i + e))]
     ELSE [found |-> TRUE, value |-> NoValue]

\* an unfinished question of parseTextQuestions
EmptyQuestion ==
  [question |-> <<>>, optionsGiven |-> FALSE, options |-> <<>>,
   correctAnswer |-> <<>>]

\* completeQuestion
CompleteQuestion(partial, index) ==
  [ type |-> "multiple_choice",
    question |-> IF partial.question = <<>> THEN QuestionTitle(index)
                 ELSE partial.question,
    options |-> IF partial.optionsGiven THEN partial.options ELSE DefaultOptions,
    correctAnswer |->
      IF partial.correctAnswer # <<>> THEN partial.correctAnswer
      ELSE IF partial.optionsGiven /\ Len(partial.options) > 0
              /\ partial.options[1] # <<>>
        THEN partial.options[1]
      ELSE <<"xuanxiangA">>,
    difficulty |-> "medium" ]

\* the length of the match of /^\d+[.,]\s*/ and of /^[A-D][.,)]\s*/, "," standing for the
\* ideographic comma (0: none)
SpacesFrom(s, k) ==
  IF \E j \in k..Len(s) : s[j] \notin Whitespace
    THEN (CHOOSE j \in k..Len(s) :
            s[j] \notin Whitespace /\ \A h \in k..(j - 1) : s[h] \in Whitespace) - k
    ELSE Max(0, Len(s) - k + 1)

QuestionMarkerLen(s) ==
  IF DigitRun(s) > 0 /\ DigitRun(s) < Len(s) /\ s[DigitRun(s) + 1] \in {".", ","}
    THEN DigitRun(s) + 1 + SpacesFrom(s, DigitRun(s) + 2)
    ELSE 0

OptionLetters == <<"A", "B", "C", "D">>

OptionMarkerLen(s) ==
  IF Len(s) >= 2 /\ s[1] \in Range(OptionLetters) /\ s[2] \in {".", ",", ")"}
    THEN 2 + SpacesFrom(s, 3)
    ELSE 0

\* trimmedLine.match(/[A-D]/): the index of the option the first letter
\* names (0: no letter)
AnswerIndex(s) ==
  IF \E k \in 1..Len(s) : s[k] \in Range(OptionLetters)
    THEN LET at == CHOOSE k \in 1..Len(s) :
                     /\ s[k] \in Range(OptionLetters)
                     /\ \A h \in 1..(k - 1) : s[h] \notin Range(OptionLetters)
         IN CHOOSE k \in 1..4 : OptionLetters[k] = s[at]
    ELSE 0

\* the loop of parseTextQuestions over the remaining lines
RECURSIVE QuestionsFromLines(_, _, _, _)
QuestionsFromLines(lines, current, index, found) ==
  IF lines = <<>>
    THEN IF current.question # <<>>
           THEN Append(found, CompleteQuestion(current, index))
           ELSE found
  ELSE LET line == Trim(Head(lines))
       IN IF QuestionMarkerLen(line) > 0 \/ Contains(line, <<"timu">>)
            THEN LET text == SubSeq(line, QuestionMarkerLen(line) + 1, Len(line))
                 IN IF current.question # <<>>
                      THEN QuestionsFromLines(Tail(lines),
                             [EmptyQuestion EXCEPT !.question = text], index + 1,
                             Append(found, CompleteQuestion(current, index)))
                      ELSE QuestionsFromLines(Tail(lines),
                             [current EXCEPT !.question = text], index, found)
          ELSE IF OptionMarkerLen(line) > 0
            THEN QuestionsFromLines(Tail(lines),
                   [current EXCEPT
                      !.optionsGiven = TRUE,
                      !.options = Append(@, SubSeq(line, OptionMarkerLen(line) + 1,
                                                   Len(line)))],
                   index, found)
          ELSE IF Contains(line, <<"daan">>) \/ Contains(line, <<"zhengque", "daan">>)
            THEN QuestionsFromLines(Tail(lines),
                   IF AnswerIndex(line) > 0 /\ current.optionsGiven
                     THEN [current EXCEPT !.correctAnswer =
                             IF AnswerIndex(line) <= Len(current.options)
                               THEN current.options[AnswerIndex(line)]
                               ELSE <<>>]
                     ELSE current,
                   index, found)
          ELSE QuestionsFromLines(Tail(lines), current, index, found)

\* parseTextQuestions
ParseTextQuestions(lines) ==
  QuestionsFromLines(SelectSeq(lines, LAMBDA l : Len(Trim(l)) > 0),
                     EmptyQuestion, 1, <<>>)

\* parseQuizQuestions: the questions and the path that returned them
ParseQuizQuestions(lines) ==
  LET literal == IF FencedLiteral(lines).found THEN FencedLiteral(lines)
                 ELSE BracketedLiteral(lines)
  IN IF literal.found /\ literal.value.parsed /\ literal.value.isArray
       THEN [by |-> "json",
             items |-> [k \in 1..Len(literal.value.items) |->
                          ValidateAndNormalizeQuestion(literal.value.items[k], k)]]
       ELSE [by |-> "text", items |-> ParseTextQuestions(lines)]

\* ------------------------------------------------------------------------
\* QuizAgent: optimizeQuestions
\* ------------------------------------------------------------------------
\* q.question.toLowerCase().replace(/\s+/g, '')
QuestionKey(q) ==
  SelectSeq(ToLowerCase(q.question), LAMBDA c : c \notin Whitespace)

\* removeDuplicateQuestions
RemoveDuplicateQuestions(qs) ==
  LET kept == SelectSeq([k \in 1..Len(qs) |-> k],
                        LAMBDA k : \A h \in 1..(k - 1) :
                                     QuestionKey(qs[h]) # QuestionKey(qs[k]))
  IN [k \in 1..Len(kept) |-> qs[kept[k]]]

\* the question generateFallbackQuestions pushes count times
FallbackQuestion ==
  [ type |-> "multiple_choice",
    question |-> <<"guanyu", "ben", "wendang", "neirong">>,
    options |-> DefaultOptions,
    correctAnswer |-> <<"xuanxiangA">>,
    difficulty |-> "medium" ]

\* generateFallbackQuestions
GenerateFallbackQuestions(count) == [k \in 1..count |-> FallbackQuestion]

\* s.slice(0, end)
Slice(s, end) ==
  IF end >= 0 THEN SubSeq(s, 1, Min(end, Len(s)))
  ELSE SubSeq(s, 1, Max(Len(s) + end, 0))

\* Math.ceil(n * 0.3) and Math.ceil(n * 0.2)
EasyShare(n) == (3 * n + 9) \div 10

HardShare(n) == (2 * n + 9) \div 10

\* balanceDifficulty; the questions are told apart by their positions, as
\* result.includes(q) compares objects
BalanceDifficulty(qs) ==
  LET n == Len(qs)
      Of(d) == SelectSeq([k \in 1..n |-> k], LAMBDA k : qs[k].difficulty = d)
      picked == Slice(Of("easy"), EasyShare(n))
                \o Slice(Of("medium"), n - EasyShare(n) - HardShare(n))
                \o Slice(Of("hard"), HardShare(n))
      remaining == SelectSeq([k \in 1..n |-> k], LAMBDA k : k \notin Range(picked))
      all == IF Len(picked) < n
               THEN picked \o Slice(remaining, n - Len(picked))
               ELSE picked
  IN [k \in 1..Len(all) |-> qs[all[k]]]

\* optimizeQuestions up to the call of balanceDifficulty
FillQuestions(qs, targetCount) ==
  LET sliced == Slice(RemoveDuplicateQuestions(qs), targetCount)
  IN IF Len(sliced) < targetCount
       THEN sliced \o GenerateFallbackQuestions(targetCount - Len(sliced))
       ELSE sliced

\* optimizeQuestions
OptimizeQuestions(qs, targetCount) ==
  BalanceDifficulty(FillQuestions(qs, targetCount))

\* ------------------------------------------------------------------------
\* QuizAgent: doExecute, from the response of the backend on
\* ------------------------------------------------------------------------
\* new Error('No valid questions generated')
NoValidQuestionsMessage == <<"No", "valid", "questions", "generated">>

\* the catch block of QuizAgent.doExecute
QuizClassifyError(msg) ==
  IF "timeout" \in Range(msg)
    THEN <<"TIMEOUT_ERROR", ":", "LLM", "request", "timeout">>
  ELSE IF "API" \in Range(msg) \/ "model" \in Range(msg)
    THEN <<"LLM_ERROR", ":">> \o msg
  ELSE IF "parse" \in Range(msg) \/ "JSON" \in Range(msg)
    THEN <<"PARSING_ERROR", ":", "Failed", "to", "parse", "quiz", "questions">>
  ELSE <<"UNKNOWN_ERROR", ":">> \o msg

\* const {..., questionCount = this.defaultQuestionCount, ...} = input
QuestionCountArgument(given) ==
  IF given = Absent THEN DefaultQuestionCount ELSE given

\* the question counts validateInput lets through: none, 0 (falsy) and 1..20
QuestionCounts == {QuestionCountArgument(given) : given \in {Absent} \cup 0..MaxQuestions}

InitQuizIdle ==
  /\ qpc = "idle"
  /\ rawOutput = <<>>
  /\ questionCount = DefaultQuestionCount
  /\ questions = <<>>
  /\ questionsBy = "none"
  /\ optimizedQuestions = <<>>
  /\ quizResult = PendingOutcome

\* chain.call has resolved with a response text
InitQuizResponded ==
  /\ qpc = "responded"
  /\ rawOutput \in RawOutputs
  /\ questionCount \in QuestionCounts
  /\ questions = <<>>
  /\ questionsBy = "none"
  /\ optimizedQuestions = <<>>
  /\ quizResult = PendingOutcome

\* doExecute from the response on: parseQuizQuestions, the length check,
\* optimizeQuestions, the return and the catch block
QuizDoExecuteCompletes ==
  /\ qpc = "responded"
  /\ questions' = ParseQuizQuestions(rawOutput).items
  /\ questionsBy' = ParseQuizQuestions(rawOutput).by
  /\ IF Len(questions') = 0
       THEN /\ quizResult' = Threw(QuizClassifyError(NoValidQuestionsMessage))
            /\ optimizedQuestions' = <<>>
            /\ qpc' = "threw"
       ELSE /\ optimizedQuestions' = OptimizeQuestions(questions', questionCount)
            /\ quizResult' = Returned
            /\ qpc' = "returned"
  /\ UNCHANGED <<rawOutput, questionCount>>
  /\ UNCHANGED notQuizVars

NextQuiz == QuizDoExecuteCompletes

\* ------------------------------------------------------------------------
\* Specifications
\* ------------------------------------------------------------------------
\* an agent built with the constructor defaults, no LLM given
InitAgentDefault ==
  /\ maxRetriesCfg = ConstructorMaxRetries(Absent)
  /\ timeoutCfg = ConstructorTimeout(Absent)
  /\ llm = FALSE
  /\ llmManager = "unset"
  /\ status = "idle"
  /\ eventListeners = <<>>
  /\ apc = "idle"
  /\ attempt = 0
  /\ lastError = NoError
  /\ result = NoResult
  /\ elapsed = 0
  /\ calls = 0
  /\ invocations = 0
  /\ outcomes = <<>>
  /\ emitted = <<>>
  /\ inbox = EmptyInbox
  /\ statusAtCall = "idle"
  /\ callInput = "none"

\* the agent contract: one BaseAgent, any configuration, calls one at a time
InitForAgent == InitAgent /\ InitSched /\ InitOrch /\ InitParallel /\ InitCalls /\ InitReplay
  /\ InitKeyPointIdle /\ InitLearningPathIdle /\ InitQuizIdle

SpecAgent == InitForAgent /\ [][NextAgent]_vars

\* the dependency scheduler: one run of executeWorkflow or streamWorkflow
InitForSched == InitAgentDefault /\ InitSched /\ InitOrch /\ InitParallel /\ InitCalls /\ InitReplay
  /\ InitKeyPointIdle /\ InitLearningPathIdle /\ InitQuizIdle

SpecSched == InitForSched /\ [][NextSched]_vars

\* the scheduler under the scheduling the runtime gives it: every awaited
\* executeStep settles (each agent attempt is bounded by its timeout and the
\* number of attempts by maxRetries) and the synchronous code between two
\* awaits runs to the next await
SpecSchedFair == SpecSched /\ WF_vars(NextSched)

\* the dependency scheduler run twice: executeWorkflow, then streamWorkflow
\* with the same workflow, the same initial state and agents that answer the
\* same way
SpecReplay == InitForSched /\ [][NextReplay]_vars

\* the fixed-pipeline orchestrator: one AgentOrchestrator serving the
\* executeWorkflow calls of Requests, interleaved at their awaits
InitForOrch == InitAgentDefault /\ InitSched /\ InitOrch /\ InitParallel /\ InitCalls /\ InitReplay
  /\ InitKeyPointIdle /\ InitLearningPathIdle /\ InitQuizIdle

SpecOrch == InitForOrch /\ [][NextOrch]_vars

\* one call of executeParallelAgents
InitForParallel == InitAgentDefault /\ InitSched /\ InitOrch /\ InitParallel /\ InitCalls /\ InitReplay
  /\ InitKeyPointIdle /\ InitLearningPathIdle /\ InitQuizIdle

SpecParallel == InitForParallel /\ [][NextParallel]_vars

\* KeyPointExtractorAgent.doExecute after the backend has answered
InitForKeyPoint ==
  InitAgentDefault /\ InitSched /\ InitOrch /\ InitParallel /\ InitCalls /\ InitReplay
  /\ InitKeyPointResponded /\ InitLearningPathIdle /\ InitQuizIdle

SpecKeyPoint == InitForKeyPoint /\ [][NextKeyPoint]_vars

\* validateAndCleanKeyPoints over the arrays a response literal can hold
InitForKeyPointValidation ==
  InitAgentDefault /\ InitSched /\ InitOrch /\ InitParallel /\ InitCalls /\ InitReplay
  /\ InitKeyPointParsed /\ InitLearningPathIdle /\ InitQuizIdle

SpecKeyPointValidation ==
  InitForKeyPointValidation /\ [][NextKeyPointValidation]_vars

\* LearningPathAgent.doExecute after parseLearningPathResponse has returned
InitForLearningPath ==
  InitAgentDefault /\ InitSched /\ InitOrch /\ InitParallel /\ InitCalls /\ InitReplay
  /\ InitKeyPointIdle /\ InitLearningPathParsed /\ InitQuizIdle

SpecLearningPath == InitForLearningPath /\ [][NextLearningPath]_vars

\* QuizAgent.doExecute after the backend has answered
InitForQuiz ==
  InitAgentDefault /\ InitSched /\ InitOrch /\ InitParallel /\ InitCalls /\ InitReplay
  /\ InitKeyPointIdle /\ InitLearningPathIdle /\ InitQuizResponded

SpecQuiz == InitForQuiz /\ [][NextQuiz]_vars

\* structured output recovery in the three agents that use it: three
\* objects that share no state; a behaviour exercises one of them
InitForRecovery ==
  /\ InitAgentDefault /\ InitSched /\ InitOrch /\ InitParallel /\ InitCalls /\ InitReplay
  /\ \/ InitKeyPointResponded /\ InitLearningPathIdle /\ InitQuizIdle
     \/ InitKeyPointIdle /\ InitLearningPathParsed /\ InitQuizIdle
     \/ InitKeyPointIdle /\ InitLearningPathIdle /\ InitQuizResponded

NextRecovery ==
  \/ NextKeyPoint
  \/ NextLearningPath
  \/ NextQuiz

SpecRecovery == InitForRecovery /\ [][NextRecovery]_vars

\* the normalisation steps applied to sequences they have produced
InitForIdempotence ==
  /\ InitAgentDefault /\ InitSched /\ InitOrch /\ InitParallel /\ InitCalls /\ InitReplay
  /\ \/ InitKeyPointNormalised /\ InitLearningPathIdle /\ InitQuizIdle
     \/ InitKeyPointIdle /\ InitLearningPathNormalised /\ InitQuizIdle

NextIdempotence ==
  \/ NextKeyPointValidation
  \/ NextLearningPath

SpecIdempotence == InitForIdempotence /\ [][NextIdempotence]_vars

\* calls that outlive the code that awaited them: execute calls overlapping
\* on one agent instance with doExecute promises abandoned by the timer,
\* and the orchestrator with execute calls abandoned by the step timeout;
\* a behaviour exercises one of the two
InitForConcurrent == InitAgentDefault /\ InitSched /\ InitOrch /\ InitParallel /\ InitCalls /\ InitReplay
  /\ InitKeyPointIdle /\ InitLearningPathIdle /\ InitQuizIdle

AgentUnused ==
  /\ \A c \in ExecuteCalls : callPc[c] = "idle"
  /\ llmManager = "unset"

NextConcurrent ==
  \/ (\A r \in Requests : wpc[r] = "idle") /\ NextCalls
  \/ AgentUnused /\ NextOrch

SpecConcurrent == InitForConcurrent /\ [][NextConcurrent]_vars

\* the two workflow entry points, AgentOrchestrator.executeWorkflow and
\* SimpleWorkflowExecutor.executeWorkflow: two objects that share no state;
\* a behaviour exercises one of them
InitForEntry == InitAgentDefault /\ InitSched /\ InitOrch /\ InitParallel /\ InitCalls /\ InitReplay
  /\ InitKeyPointIdle /\ InitLearningPathIdle /\ InitQuizIdle

OrchestratorUnused == \A r \in Requests : wpc[r] = "idle"

NextEntry ==
  \/ spc = "ready" /\ NextOrch
  \/ OrchestratorUnused /\ NextSched

SpecEntry == InitForEntry /\ [][NextEntry]_vars

\* ------------------------------------------------------------------------
\* Agent contract: properties
\* ------------------------------------------------------------------------
\* the execute call has returned an AgentResult for a valid input
ReturnedValid == apc = "returned" /\ callInput = "valid"

AllAttemptsFailed == outcomes # <<>> /\ "ok" \notin Range(outcomes)

AllAttemptsTimedOut ==
  outcomes # <<>> /\ \A k \in 1..Len(outcomes) : outcomes[k] = "timeout"

\* C1: an agent configured with maxRetries = N (N >= 0) whose doExecute
\* fails on every attempt invokes doExecute exactly N times in one execute
\* call with valid input and then returns success:false.
C1_RetryBound ==
  (ReturnedValid /\ AllAttemptsFailed) =>
     /\ invocations = maxRetriesCfg
     /\ result.success = FALSE

\* C2: when validateInput is false, execute returns success:false at once:
\* doExecute is not invoked, no delay passes, no event is emitted to any
\* listener, and the status is the one the agent had before the call.
C2_InvalidInputReturnsAtOnce ==
  (apc = "returned" /\ callInput = "invalid") =>
     /\ result.success = FALSE
     /\ result.error = InvalidInputMessage
     /\ invocations = 0
     /\ outcomes = <<>>
     /\ elapsed = 0
     /\ emitted = <<>>
     /\ \A l \in ListenerIds : inbox[l] = <<>>
     /\ status = statusAtCall

C2_Witness ==
  /\ apc = "returned"
  /\ callInput = "invalid"
  /\ statusAtCall = "error"
  /\ eventListeners # <<>>

StatusTransitions ==
  { <<"idle", "running">>, <<"error", "running">>,
    <<"running", "idle">>, <<"running", "error">> }

\* C3: status is a 3-state machine: idle at first; running while an execute
\* call with valid input is attempting or backing off; at the return of that
\* call idle iff success:true and error iff success:false; a call on an
\* agent in state error moves it to running; no other transition occurs.
C3_StatusMachine ==
  /\ [](calls = 0 => status = "idle")
  /\ [](status \in {"idle", "running", "error"})
  /\ [](apc \in {"attempting", "backoff"} => status = "running")
  /\ [](ReturnedValid => /\ (status = "idle" <=> result.success)
                         /\ (status = "error" <=> ~result.success))
  /\ [][ status' # status =>
           /\ <<status, status'>> \in StatusTransitions
           /\ (status' = "running" <=> (calls' = calls + 1 /\ apc' = "attempting"))
           /\ (status' # "running" <=> (apc = "attempting" /\ apc' = "returned")) ]_vars
  /\ [][ (calls' = calls + 1 /\ apc' = "attempting") => status' = "running" ]_vars

C3_Witness ==
  /\ statusAtCall = "error"
  /\ status = "running"
  /\ apc = "backoff"

\* C4 as stated: every execute call with valid input emits exactly one
\* started event before the first doExecute attempt and then exactly one
\* terminal event, completed on success:true, error on success:false.
C4_EveryValidCallEmits ==
  (callInput = "valid" /\ apc \in {"returned", "rejected"}) =>
     /\ Len(emitted) = 2
     /\ emitted[1].type = "started"
     /\ emitted[2].type \in {"completed", "error"}

\* C4 (amended): every execute call with valid input whose LLM
\* initialisation succeeds emits exactly one started event before the first
\* doExecute attempt and then exactly one terminal event: completed if the
\* call returns success:true, error (carrying the last attempt's failure
\* message) if it returns success:false; no event between the two, whatever
\* the number of failed attempts, and none after the terminal event.  A
\* call whose LLM initialisation fails rejects and emits nothing.
C4_EventsOfACall ==
  /\ (callInput = "valid" /\ apc \in {"attempting", "backoff"}) =>
        /\ emitted = <<Event("started", NoError)>>
        /\ invocations >= 1
  /\ ReturnedValid =>
        /\ Len(emitted) = 2
        /\ emitted[1] = Event("started", NoError)
        /\ result.success => emitted[2] = Event("completed", NoError)
        /\ ~result.success =>
              /\ emitted[2] = Event("error", result.error)
              /\ lastError # NoError
              /\ SubSeq(result.error, Len(result.error) - Len(lastError) + 1,
                        Len(result.error)) = lastError
  /\ (callInput = "valid" /\ apc = "rejected") =>
        /\ emitted = <<>>
        /\ invocations = 0

C4_Witness ==
  /\ ReturnedValid
  /\ ~result.success
  /\ Len(outcomes) >= 2
  /\ outcomes[1] # outcomes[2]
  /\ eventListeners # <<>>

RECURSIVE BackoffTotal(_)
\* the delays between n attempts
BackoffTotal(n) == IF n <= 1 THEN 0 ELSE BackoffDelay(n - 1) + BackoffTotal(n - 1)

\* C5: when every doExecute attempt is ended by the per-attempt timeout,
\* execute returns success:false with an error tagged TIMEOUT_ERROR, no
\* earlier than the configured timeout and no later than maxRetries
\* timeouts plus the backoff delays between them.
C5_TimeoutTagged ==
  (ReturnedValid /\ AllAttemptsTimedOut) =>
     /\ result.success = FALSE
     /\ "TIMEOUT_ERROR" \in Range(result.error)
     /\ elapsed >= timeoutCfg
     /\ elapsed <= EffectiveMaxRetries(maxRetriesCfg) * EffectiveTimeout(timeoutCfg)
                     + BackoffTotal(EffectiveMaxRetries(maxRetriesCfg))

\* ------------------------------------------------------------------------
\* Dependency scheduler: properties
\* ------------------------------------------------------------------------
Count(seq, x) == Cardinality({k \in 1..Len(seq) : seq[k] = x})

\* the stall error of the running variant
StallErrorOf(m) == IF m = "stream" THEN StreamStallError ELSE StallError

StallRecorded == StallErrorOf(mode) \in Range(state.errors)

\* the step of the workflow with a given id
StepWithId(id) == CHOOSE s \in Range(workflow) : s.id = id

\* C6: executeWorkflow terminates for every step graph, also with a
\* dependency cycle or a condition that never holds; when it stops with
\* steps still pending, errors holds the stall error exactly once and
\* completed is false; no step is started after the stall is recorded.
C6_SchedulerTerminates ==
  /\ [](mode = "execute" => <>(spc \in {"done", "threw"}))
  /\ []((mode = "execute" /\ spc = "done" /\ Len(pendingSteps) > 0) =>
           /\ Count(state.errors, StallError) = 1
           /\ state.completed = FALSE)
  /\ []((mode = "execute" /\ spc = "done" /\ Len(pendingSteps) = 0) =>
           Count(state.errors, StallError) = 0)
  /\ [][ (mode = "execute" /\ StallRecorded) => started' = started ]_vars

C6_Witness ==
  /\ mode = "execute"
  /\ spc = "done"
  /\ Len(pendingSteps) = 2
  /\ finished # {}
  /\ \E k \in 1..2 : pendingSteps[k].id \in pendingSteps[3 - k].dependencies

\* C7: in executeWorkflow and streamWorkflow a step is never started before
\* every step listed in its dependencies has finished executing (with or
\* without a recorded error), and never while its condition is false on the
\* current accumulated state.
C7_StartsAfterDependencies ==
  spc = "awaitStep" =>
     /\ CurrentStep.dependencies \subseteq finished
     /\ CurrentStep.condition = "questionCount" => state.questionCount > 0
     /\ CurrentStep.condition = "hasKeyPoints" =>
           (state.extractedKeyPoints # "none" \/ state.keyPoints = "input")
     /\ CurrentStep.condition # "never"
     /\ started[Len(started)].id = CurrentStep.id

C7_Witness ==
  /\ spc = "awaitStep"
  /\ mode = "stream"
  /\ workflowId = "full_pipeline"
  /\ CurrentStep.id = "generate_quiz"
  /\ failedSteps = <<"extract">>
  /\ Len(pendingSteps) = 2

\* a pending step that has nothing left to wait for
Unblocked(step) ==
  /\ step.dependencies \subseteq finished
  /\ CheckCondition(step, state)

\* C8: a step whose agent fails does not abort the workflow: the failure is
\* in errors exactly once, the step counts as completed for dependencies, so
\* no step stays pending because of it (its dependents run as soon as their
\* other dependencies and their condition allow), and the run goes on until
\* no pending step is runnable.
C8_FailureDoesNotAbort ==
  /\ Len(state.errors) = Len(failedSteps) + Count(state.errors, StallErrorOf(mode))
  /\ \A k \in 1..Len(failedSteps) :
        /\ failedSteps[k] \in completedSteps
        /\ Count(failedSteps, failedSteps[k]) = 1
        /\ spc \in {"scan", "finish", "done"} =>
              Count(state.errors,
                    StepFailure(StepWithId(failedSteps[k]).type, "agent failed"))
              + Count(state.errors,
                    StepFailure(StepWithId(failedSteps[k]).type, "input required"))
              = 1
  /\ spc \in {"finish", "done"} =>
        \A k \in 1..Len(pendingSteps) : ~Unblocked(pendingSteps[k])

C8_Witness ==
  /\ spc = "done"
  /\ workflowId \in KnownWorkflowIds
  /\ Len(failedSteps) >= 1
  /\ \E s \in Range(workflow) :
        /\ failedSteps[1] \in s.dependencies
        /\ s.id \in finished
        /\ s.id \notin Range(failedSteps)
  /\ Len(pendingSteps) = 0

\* C9: the steps that are runnable in one scan are executed in declaration
\* order: when a step is started, no step declared before it is pending and
\* runnable in that scan.
C9_DeclarationOrder ==
  (spc = "awaitStep" /\ workflowId \in KnownWorkflowIds) =>
     \A j \in 1..(scanIdx - 1) : ~Runnable(pendingSteps[j])

\* C10 as stated: a stream in which k steps execute yields exactly k
\* snapshots, the last one being the final state.
C10_OneSnapshotPerStep ==
  (mode = "stream" /\ spc = "done" /\ workflowId \in KnownWorkflowIds) =>
     /\ Len(snapshots) = Len(started)
     /\ snapshots[Len(snapshots)] = state

\* C10 (amended): streamWorkflow yields a finite sequence of snapshots: the
\* initial state, then one snapshot per executed step, then one more when a
\* stall is recorded, then the final state (completed flag and errors
\* final); when k steps execute, exactly k + 2 snapshots are produced, and
\* k + 3 when the workflow stalls.
C10_SnapshotsOfAStream ==
  /\ (mode = "stream" /\ spc \in {"scan", "awaitStep"}) =>
        Len(snapshots) = Cardinality(finished) + 1
  /\ (mode = "stream" /\ spc \in {"scan", "awaitStep", "finish", "done"}) =>
        /\ snapshots[1].errors = <<>>
        /\ snapshots[1].currentStep = "none"
        /\ snapshots[1].completed = FALSE
  /\ (mode = "stream" /\ spc = "done") =>
        /\ Len(snapshots) = Len(started) + 2 + Count(state.errors, StreamStallError)
        /\ Count(state.errors, StreamStallError) = (IF Len(pendingSteps) > 0 THEN 1 ELSE 0)
        /\ snapshots[Len(snapshots)] = state
        /\ state.completed = (Len(pendingSteps) = 0 /\ state.errors = <<>>)
        /\ \A k \in 1..Len(started) :
              snapshots[k + 1].errors # snapshots[k].errors
              \/ snapshots[k + 1].currentStep # "none"
  /\ mode = "execute" => snapshots = <<>>

C10_Witness ==
  /\ mode = "stream"
  /\ workflowId = "full_pipeline"
  /\ spc = "done"
  /\ Len(started) = 3
  /\ Len(pendingSteps) = 1
  /\ Len(snapshots) = 6


\* ------------------------------------------------------------------------
\* Fixed-pipeline orchestrator: properties
\* ------------------------------------------------------------------------
FullPipelineOrder ==
  <<"document_parsing", "keypoint_extraction", "learning_path_generation",
    "quiz_generation">>

IsPrefix(s, t) == Len(s) <= Len(t) /\ \A n \in 1..Len(s) : s[n] = t[n]

\* the race of a step request r invoked did not end with success:true
SomeStepFailed(r) ==
  \E n \in 1..Len(stepOutcomes[r]) : stepOutcomes[r][n] # "success"

C11_InvokedInOrder ==
  \A r \in Requests :
    winput[r].type = "full_pipeline" =>
      /\ IsPrefix(invoked[r], FullPipelineOrder)
      /\ \A n \in 2..Len(invoked[r]) :
           /\ Len(stepOutcomes[r]) >= n - 1
           /\ stepOutcomes[r][n - 1] = "success"

C11_NothingInvokedAfterFailure ==
  \A r \in Requests :
    (winput[r].type = "full_pipeline" /\ SomeStepFailed(r)) =>
      invoked'[r] = invoked[r]

\* C11: a full pipeline invokes its agents in the order document_parsing,
\* keypoint_extraction, learning_path_generation, quiz_generation; the agent
\* of step n+1 is invoked only after step n returned success:true; and once
\* a step has failed or run into the 60 s step timeout, no further agent is
\* invoked for that request.
C11_PipelineOrder ==
  /\ []C11_InvokedInOrder
  /\ [][C11_NothingInvokedAfterFailure]_vars

\* one request ran all four steps, the other stopped at a timed-out step 2
C11_Witness ==
  \E r, q \in Requests :
    /\ winput[r].type = "full_pipeline"
    /\ winput[q].type = "full_pipeline"
    /\ invoked[r] = FullPipelineOrder
    /\ wpc[r] = "returned"
    /\ stepOutcomes[q] = <<"success", "timeout">>
    /\ wpc[q] = "returned"

\* C12: graceful degradation: when step k of a pipeline fails, the output
\* has success = false and its results still hold the output of every
\* earlier step that succeeded.
C12_PartialResultsKept ==
  \A r \in Requests :
    (wpc[r] = "returned" /\ SomeStepFailed(r)) =>
      /\ ~output[r].success
      /\ \A n \in 1..Len(stepOutcomes[r]) :
           stepOutcomes[r][n] = "success" =>
             output[r].results[PipelineOf(winput[r])[n].field]

\* the request was refused before any step: unknown type or missing input
RefusedAtEntry(r) ==
  winput[r].type \notin WorkflowTypes \/ ~RequiredInputPresent(winput[r])

\* C13 as stated: the entry points return for agent failures and raise
\* exactly when the workflow type is unknown or a required initial input is
\* missing.
C13_RaisesExactlyOnBadRequests ==
  /\ \A r \in Requests : wpc[r] = "returned" => ~RefusedAtEntry(r)
  /\ (mode = "execute" /\ spc = "done") =>
       \A n \in 1..Len(state.errors) : "required" \notin Range(state.errors[n])

\* C13 (amended): neither entry point raises for an agent failure; each
\* returns a result that records it.  AgentOrchestrator.executeWorkflow
\* never raises: an unknown type, a missing required input and a failed
\* step are all returned with success = false and a last error record of
\* step 'workflow_execution', and success = true is returned only with no
\* error record.  SimpleWorkflowExecutor.executeWorkflow raises exactly
\* when the workflow id is unknown; a failed step, a missing input
\* included, is returned in errors with completed = false.
C13_EntryPointsReturnErrors ==
  /\ \A r \in Requests :
       /\ wpc[r] \in {"idle", "awaiting", "returned"}
       /\ wpc[r] = "returned" =>
            /\ output[r].success = ~(RefusedAtEntry(r) \/ SomeStepFailed(r))
            /\ output[r].success => output[r].errors = <<>>
            /\ ~output[r].success =>
                 /\ output[r].errors # <<>>
                 /\ output[r].errors[Len(output[r].errors)].step
                      = "workflow_execution"
  /\ mode = "execute" =>
       /\ (spc = "threw") = (workflowId = UnknownWorkflowId)
       /\ (spc = "done" /\ failedSteps # <<>>) =>
            /\ Len(state.errors) >= Len(failedSteps)
            /\ ~state.completed

\* one request was refused for its unknown type, the other returned after
\* an agent failure
C13_Witness ==
  \E r, q \in Requests :
    /\ wpc[r] = "returned"
    /\ winput[r].type = UnknownWorkflowType
    /\ wpc[q] = "returned"
    /\ ~RefusedAtEntry(q)
    /\ SomeStepFailed(q)

\* C14: executeParallelAgents never has more than maxConcurrency agent
\* functions started and not yet settled.
C14_ConcurrencyCeiling ==
  ppc # "idle" => Cardinality(RunningAgents) <= maxConcurrency

\* C15: no two execute calls are ever in flight on the same agent instance
\* of the orchestrator.
C15_OneCallPerAgent ==
  \A a \in AgentInstances : inFlight[a] <= 1


\* ------------------------------------------------------------------------
\* Structured output recovery: properties
\* ------------------------------------------------------------------------
\* C16: whenever structured output recovery ends with an empty validated
\* sequence (no key point, learning step or quiz question survives), the
\* doExecute attempt fails with an error tagged PARSING_ERROR: it neither
\* returns the empty sequence as a success nor carries another tag.
C16_EmptyIsParsingError ==
  /\ (kpc \in {"returned", "threw"} /\ Len(validatedKeyPoints) = 0)
       => (~kpResult.ok /\ kpResult.error[1] = "PARSING_ERROR")
  /\ (lpc \in {"returned", "threw"} /\ Len(optimizedSteps) = 0)
       => (~lpResult.ok /\ lpResult.error[1] = "PARSING_ERROR")
  /\ (qpc \in {"returned", "threw"} /\ Len(optimizedQuestions) = 0)
       => (~quizResult.ok /\ quizResult.error[1] = "PARSING_ERROR")

\* the array a strategy produced from a text, when it produced a non-empty one
WholeTextArray(text) ==
  IF JsonParse(text).parsed /\ JsonParse(text).isArray
    THEN JsonParse(text).items ELSE <<>>

BracketedArray(text) ==
  IF BracketMatch(text) # <<>> THEN WholeTextArray(BracketMatch(text)) ELSE <<>>

\* C17: the three strategies are tried in strict order and the first
\* success wins: the whole text as a literal, then the first bracketed
\* substring, then the line heuristic; the line heuristic is applied
\* whenever neither of the first two produced a non-empty array, also when
\* a bracketed substring is found but does not parse.
C17_StrategiesInOrder ==
  kpc \in {"returned", "threw"} =>
    IF WholeTextArray(responseText) # <<>>
      THEN parsedBy = "whole" /\ keyPoints = WholeTextArray(responseText)
    ELSE IF BracketedArray(responseText) # <<>>
      THEN parsedBy = "bracket" /\ keyPoints = BracketedArray(responseText)
    ELSE parsedBy = "lines" /\ keyPoints = ParseKeyPointsFromText(responseText)

\* C18: every multiple_choice question of a quiz QuizAgent returns, whether
\* it came from the JSON path, the text path or the fallback questions, has
\* at least 2 options and a correctAnswer that is one of its options.
C18_MultipleChoiceWellFormed ==
  qpc = "returned" =>
    \A k \in 1..Len(optimizedQuestions) :
      optimizedQuestions[k].type = "multiple_choice" =>
        /\ Len(optimizedQuestions[k].options) >= MinOptions
        /\ optimizedQuestions[k].correctAnswer
             \in Range(optimizedQuestions[k].options)

\* C19: for every list of parsed learning steps, the empty list and lists
\* whose steps are all filtered out included, and both user levels,
\* optimizeLearningPath returns between 3 and 8 steps.
C19_ThreeToEightSteps ==
  lpc \in {"returned", "threw"} =>
    Len(optimizedSteps) \in MinPathSteps..MaxPathSteps

\* out holds cleaned entries of in, in the order they have in in
IsCleanedSubsequence(out, in) ==
  \E f \in [1..Len(out) -> 1..Len(in)] :
    /\ \A k \in 1..Len(out) : out[k] = CleanKeyPoint(in[f[k]])
    /\ \A k \in 1..(Len(out) - 1) : f[k] < f[k + 1]

\* C20: whatever the key points and maxCount, the output of
\* validateAndCleanKeyPoints has no two entries whose concepts are equal
\* ignoring case, has at most maxCount entries, and keeps the entries in the
\* relative order of the input.
C20_ValidatedKeyPoints ==
  kpc = "validated" =>
    /\ \A i, j \in 1..Len(validatedKeyPoints) :
         i # j => ToLowerCase(validatedKeyPoints[i].concept)
                    # ToLowerCase(validatedKeyPoints[j].concept)
    /\ Len(validatedKeyPoints) <= maxKeyPoints
    /\ IsCleanedSubsequence(validatedKeyPoints, keyPoints)

\* three key points pass the filters and the cap, one of them repeats the
\* concept of an earlier one and is dropped
C20_Witness ==
  /\ kpc = "validated"
  /\ Len(keyPoints) = 3
  /\ \A k \in 1..3 : HasConcept(keyPoints[k]) /\ HasDescription(keyPoints[k])
  /\ maxKeyPoints = 3
  /\ Len(validatedKeyPoints) = 2

\* ------------------------------------------------------------------------
\* Normalisation: properties
\* ------------------------------------------------------------------------
\* C21: normalisation is idempotent: validateAndCleanKeyPoints applied to a
\* sequence it returned (same maxCount), and optimizeLearningPath applied to
\* a sequence it returned (same user level), return that sequence unchanged.
C21_NormalisationIdempotent ==
  /\ kpc = "validated" => validatedKeyPoints = keyPoints
  /\ lpc \in {"returned", "threw"} => optimizedSteps = learningSteps

\* ------------------------------------------------------------------------
\* Quiz: properties
\* ------------------------------------------------------------------------
\* C25: whatever the parsed questions and the target count, the quiz
\* optimizeQuestions returns has exactly the target count of questions and
\* no two questions whose text is equal after lower-casing and removing
\* whitespace, fallback questions included; balanceDifficulty returns a
\* permutation of the questions it is given.
C25_CountDedupBalance ==
  qpc = "returned" =>
    /\ Len(optimizedQuestions) = questionCount
    /\ \A i, j \in 1..Len(optimizedQuestions) :
         i # j => QuestionKey(optimizedQuestions[i])
                    # QuestionKey(optimizedQuestions[j])
    /\ \A q \in Range(optimizedQuestions)
                  \cup Range(FillQuestions(questions, questionCount)) :
         Count(optimizedQuestions, q)
           = Count(FillQuestions(questions, questionCount), q)

\* ------------------------------------------------------------------------
\* executeParallelAgents: results
\* ------------------------------------------------------------------------
\* C26: executeParallelAgents resolves only after every given invocation
\* has completed, and the element at index i of the returned array is the
\* result of agents[i], whatever the completion order and maxConcurrency.
C26_AllResultsInPlace ==
  ppc = "returned" =>
    \A k \in 1..agentCount :
      settledAgents[k] = "fulfilled" /\ parResults[k] = k

\* ------------------------------------------------------------------------
\* AgentOrchestrator: error records
\* ------------------------------------------------------------------------
\* the records of output.metadata.errors of request r that name the step
StepRecords(r, name) ==
  {i \in 1..Len(output[r].errors) : output[r].errors[i].step = name}

\* C23: every step failure of a fixed-pipeline workflow is accumulated as
\* one record naming the failed step (no other record names a step), and
\* the returned output has success = true exactly when its errors list is
\* empty.
C23_FailuresRecorded ==
  \A r \in Requests :
    /\ \A i \in 1..Len(stepOutcomes[r]) :
         Cardinality(StepRecords(r, invoked[r][i]))
           = (IF stepOutcomes[r][i] = "success" THEN 0 ELSE 1)
    /\ \A i \in 1..Len(output[r].errors) :
         \/ output[r].errors[i].step = "workflow_execution"
         \/ \E k \in 1..Len(stepOutcomes[r]) :
              /\ invoked[r][k] = output[r].errors[i].step
              /\ stepOutcomes[r][k] # "success"
    /\ wpc[r] = "returned" =>
         (output[r].success <=> output[r].errors = <<>>)

\* a full pipeline whose third step timed out has returned
C23_Witness ==
  \E r \in Requests :
    /\ wpc[r] = "returned"
    /\ Len(stepOutcomes[r]) = 3
    /\ stepOutcomes[r][3] = "timeout"
    /\ StepRecords(r, "learning_path_generation") # {}
    /\ ~output[r].success

\* ------------------------------------------------------------------------
\* Dependency scheduler: the two entry points
\* ------------------------------------------------------------------------
\* the step ids of the executeStep calls of a run, in call order
StartedIds(runs) == [k \in 1..Len(runs) |-> runs[k].id]

\* streamWorkflow has finished after executeWorkflow returned
BothRunsDone == spc = "done" /\ mode = "stream" /\ firstRun.returned

\* C24: for the same workflow, initial state and per-step agent outcomes the
\* last state streamWorkflow yields equals the state executeWorkflow
\* returns (result fields, errors list, completed flag), and both execute
\* the same steps in the same order, also when the workflow stalls.
C24_StreamRefinesExecute ==
  BothRunsDone =>
    /\ snapshots[Len(snapshots)] = firstRun.state
    /\ StartedIds(started) = StartedIds(firstRun.started)

\* ------------------------------------------------------------------------
\* Dependency scheduler: each step at most once
\* ------------------------------------------------------------------------
PendingIds(pending) == {pending[k].id : k \in 1..Len(pending)}

\* no step id is both pending and completed, no step id was started twice,
\* and the executions do not outnumber the declared steps
ExecutedAtMostOnce ==
  /\ PendingIds(pendingSteps) \cap completedSteps = {}
  /\ \A j, k \in 1..Len(started) : j # k => started[j].id # started[k].id
  /\ Len(started) <= Len(workflow)

\* within a run no step id enters pendingSteps and none leaves completedSteps
NoStepReturnsToPending ==
  spc # "ready" =>
    /\ PendingIds(pendingSteps') \subseteq PendingIds(pendingSteps)
    /\ completedSteps \subseteq completedSteps'

\* C27: in the dependency scheduler every step is executed at most once per
\* run: a step id is never both pending and completed, a completed step
\* never becomes pending again, and the number of step executions never
\* exceeds the number of declared steps.
C27_AtMostOncePerRun == []ExecutedAtMostOnce /\ [][NoStepReturnsToPending]_vars

\* a run of full_pipeline has executed each of its four steps
C27_Witness ==
  /\ spc = "done"
  /\ workflowId = "full_pipeline"
  /\ Len(started) = 4
  /\ completedSteps = {"parse", "extract", "generate_path", "generate_quiz"}
  /\ pendingSteps = <<>>

\* ------------------------------------------------------------------------
\* Dependency scheduler: full_pipeline and questionCount
\* ------------------------------------------------------------------------
\* C28: a full_pipeline run of the scheduler whose questionCount is absent
\* or 0 never executes generate_quiz: whatever the other steps do, the run
\* ends with generate_quiz still pending, the stall error in errors and
\* completed = false; with questionCount > 0 and every step's agent call
\* succeeding the run ends with no pending step, empty errors and
\* completed = true.
C28_QuizNeedsQuestionCount ==
  workflowId = "full_pipeline" /\ spc # "ready" =>
    /\ state.questionCount = 0 =>
         /\ "generate_quiz" \notin Range(StartedIds(started))
         /\ spc = "done" =>
              /\ "generate_quiz" \in PendingIds(pendingSteps)
              /\ StallRecorded
              /\ ~state.completed
    /\ state.questionCount > 0 /\ spc = "done" /\ failedSteps = <<>> =>
         /\ pendingSteps = <<>>
         /\ state.errors = <<>>
         /\ state.completed

\* parse, extract and generate_path have succeeded, questionCount is 0 and
\* the run has ended
C28_Witness ==
  /\ workflowId = "full_pipeline"
  /\ spc = "done"
  /\ state.questionCount = 0
  /\ StartedIds(started) = <<"parse", "extract", "generate_path">>
  /\ failedSteps = <<>>
  /\ PendingIds(pendingSteps) = {"generate_quiz"}

\* ------------------------------------------------------------------------
\* Agent contract: the LLM cannot be obtained
\* ------------------------------------------------------------------------
\* an execute call that rejected changed nothing: the status is the one the
\* call found, no event was emitted or delivered, doExecute was not invoked
\* and no AgentResult was produced
RejectedWithoutTrace ==
  apc = "rejected" =>
    /\ callInput = "valid"
    /\ status = statusAtCall
    /\ emitted = <<>>
    /\ inbox = EmptyInbox
    /\ invocations = 0
    /\ result = NoResult

\* an execute call with valid input made while the LLM cannot be obtained
\* rejects and leaves status and this.llm as they were
RejectsWhenNoLLM ==
  calls' = calls + 1 /\ callInput' = "valid" /\ ~LLMObtainable
    => apc' = "rejected" /\ status' = status /\ llm' = llm

\* C29: an execute call with valid input that cannot obtain its LLM (no LLM
\* manager set, or the named or default LLM not registered) rejects with an
\* exception instead of returning an AgentResult, before any state change:
\* status keeps its previous value, no started or error event is emitted and
\* doExecute is never invoked.
C29_RejectsBeforeAnyChange ==
  []RejectedWithoutTrace /\ [][RejectsWhenNoLLM]_vars

\* the second execute call rejected: a manager is set, the LLM is not
\* registered with it, and a listener is listening
C29_Witness ==
  /\ apc = "rejected"
  /\ calls = 2
  /\ llmManager = "empty"
  /\ eventListeners # <<>>

\* ------------------------------------------------------------------------
\* Late completions
\* ------------------------------------------------------------------------
\* in this step a doExecute promise that had lost the race with the timer
\* settles
LateSettlement == \E c \in ExecuteCalls : lateAttempts'[c] < lateAttempts[c]

\* in this step an execute call that no request awaits any more settles
AbandonedSettlement ==
  /\ \E a \in AgentInstances : inFlight'[a] < inFlight[a]
  /\ wpc' = wpc
  /\ stepNo' = stepNo

DiscardedLate ==
  /\ LateSettlement =>
       UNCHANGED <<status, emitted, inbox, callPc, callAttempt, callResult>>
  /\ AbandonedSettlement => UNCHANGED <<output, locals, stepOutcomes>>

\* a step whose race the timeout won is not in stepsExecuted and its field
\* of output.results is not set
TimedOutStepsLeftOut ==
  \A r \in Requests :
    \A i \in 1..Len(stepOutcomes[r]) :
      stepOutcomes[r][i] = "timeout" =>
        /\ invoked[r][i] \notin Range(output[r].stepsExecuted)
        /\ ~output[r].results[PipelineOf(winput[r])[i].field]

\* C22: a doExecute attempt ended by the timeout that completes later is
\* discarded: it never becomes the data or error of the execute call, never
\* changes status and never emits an event; likewise an agent result that
\* arrives after the orchestrator's step timeout never enters
\* output.results or stepsExecuted.
C22_LateCompletionsDiscarded ==
  []TimedOutStepsLeftOut /\ [][DiscardedLate]_vars

\* every attempt of an execute call timed out, the call has returned its
\* failure, and the abandoned doExecute promises have all settled since
C22_Witness ==
  \E c \in ExecuteCalls :
    /\ callPc[c] = "returned"
    /\ callResult[c].error =
         FailureMessage(EffectiveMaxRetries(maxRetriesCfg),
                        TimeoutMessage(EffectiveTimeout(timeoutCfg)))
    /\ lateAttempts[c] = 0
    /\ status = "error"

\* ------------------------------------------------------------------------
\* Health of an agent with calls in flight
\* ------------------------------------------------------------------------
\* the execute call has emitted started and has not returned
CallInFlight(c) == callPc[c] \in {"attempting", "backoff"}

\* C30: getStatus reports running whenever at least one execute call on the
\* agent is still in flight, so getAgentsHealthStatus reports the agent
\* healthy only when no execute call is unfinished, in every interleaving
\* of overlapping execute calls on the instance.
C30_RunningWhileInFlight ==
  /\ (\E c \in ExecuteCalls : CallInFlight(c)) => status = "running"
  /\ GetAgentHealthStatus => \A c \in ExecuteCalls : ~CallInFlight(c)

====
